---- MODULE Spec2Model ----
(***************************************************************************)
(* grv: git worktrees for several repositories under one workspace root.   *)
(*                                                                         *)
(* The model covers the worktree lifecycle of src/src/grv: the trunk       *)
(* (ensure_base_repo), the worktrees (ensure_worktree), the status of a    *)
(* worktree (get_branch_status, is_safe_to_clean) and the removal of       *)
(* worktrees (clean, _clean_branch).  Strings are TLA+ strings, paths are  *)
(* strings whose components are separated by "/", and every git            *)
(* invocation is an entry of a log.  What the git binary and the remote    *)
(* answer is an input of the command that asks.                            *)
(***************************************************************************)
EXTENDS Naturals, Sequences, FiniteSets, TLC

(***************************************************************************)
(* Bounds of the model.                                                    *)
(***************************************************************************)
\* commits a branch can be ahead of its remote counterpart
MaxUnpushed == 2
\* inserted (and deleted) lines git diff --stat can report
MaxLines == 1

(***************************************************************************)
(* Program constants (src/src/grv/constants.py).                           *)
(***************************************************************************)
REPOS_DIR == "repos"
TRUNK_DIR == "trunk"
TREE_BRANCHES_DIR == "tree_branches"
GIT_REMOTE_NAME == "origin"
GIT_CLONE_FILTER == "--filter=blob:none"
GIT_REF_REMOTE_HEAD == "refs/remotes/origin/HEAD"
GIT_REF_HEADS_PREFIX == "refs/heads/"

\* Python's None
None == "<None>"

(***************************************************************************)
(* Strings and paths.                                                      *)
(***************************************************************************)
\* an assignment: the value is computed once and named
Bind(value, body(_)) == CHOOSE r \in { body(x) : x \in {value} } : TRUE

StartsWith(s, p) == Len(s) >= Len(p) /\ SubSeq(s, 1, Len(p)) = p

\* the least element of a non-empty set of numbers
Least(numbers) == CHOOSE n \in numbers : \A m \in numbers : n <= m

\* index of the first occurrence of sub in s at or after i, 0 when there is none
FindSub(s, sub, i) ==
    Bind({ j \in i..(Len(s) - Len(sub) + 1) : SubSeq(s, j, j + Len(sub) - 1) = sub },
         LAMBDA hits : IF hits = {} THEN 0 ELSE Least(hits))

\* index of the first occurrence of the character ch in s at or after i
Find(s, ch, i) == FindSub(s, ch, i)

\* str.split(sep) for a one-character separator: the pieces between the
\* separators, the start and the end of s
Split(s, sep) ==
    Bind({ j \in 1..Len(s) : SubSeq(s, j, j) = sep } \cup {0, Len(s) + 1},
         LAMBDA cuts :
    [k \in 1..(Cardinality(cuts) - 1) |->
        Bind(CHOOSE j \in cuts : Cardinality({ i \in cuts : i < j }) = k - 1,
             LAMBDA from :
        SubSeq(s, from + 1, Least({ i \in cuts : i > from }) - 1))])

\* sep.join(parts)
RECURSIVE Join(_, _)
Join(parts, sep) ==
    IF parts = <<>> THEN ""
    ELSE IF Len(parts) = 1 THEN parts[1]
    ELSE parts[1] \o sep \o Join(Tail(parts), sep)

\* pathlib: a / b
PathJoin(a, b) == a \o "/" \o b

\* pathlib: Path.parts
Parts(p) == Split(p, "/")

\* pathlib: Path.parent
Parent(p) == LET ps == Parts(p) IN Join(SubSeq(ps, 1, Len(ps) - 1), "/")

\* the path and every ancestor of it: what mkdir(parents=True) creates
Ancestors(p) ==
    LET ps == Parts(p) IN { Join(SubSeq(ps, 1, k), "/") : k \in 1..Len(ps) }

\* p is d or lies below d
Under(p, d) == p = d \/ StartsWith(p, d \o "/")

(***************************************************************************)
(* str methods used by extract_repo_id.                                    *)
(***************************************************************************)
RECURSIVE RStrip(_, _)
RStrip(s, ch) ==
    IF Len(s) > 0 /\ SubSeq(s, Len(s), Len(s)) = ch
    THEN RStrip(SubSeq(s, 1, Len(s) - 1), ch) ELSE s

RECURSIVE LStrip(_, _)
LStrip(s, ch) ==
    IF Len(s) > 0 /\ SubSeq(s, 1, 1) = ch
    THEN LStrip(SubSeq(s, 2, Len(s)), ch) ELSE s

EndsWith(s, p) ==
    Len(s) >= Len(p) /\ SubSeq(s, Len(s) - Len(p) + 1, Len(s)) = p

RemoveSuffix(s, suf) ==
    IF Len(suf) > 0 /\ EndsWith(s, suf) THEN SubSeq(s, 1, Len(s) - Len(suf)) ELSE s

RECURSIVE Replace(_, _, _)
Replace(s, ch, by) ==
    IF Len(s) = 0 THEN ""
    ELSE (IF SubSeq(s, 1, 1) = ch THEN by ELSE SubSeq(s, 1, 1))
         \o Replace(SubSeq(s, 2, Len(s)), ch, by)

(***************************************************************************)
(* Repository identity (src/src/grv/config.py).                            *)
(***************************************************************************)
GIT_SSH_PREFIX == "git@"
GIT_SUFFIX == ".git"

\* what a raised ValueError leaves in place of a result
ValueError == "<ValueError>"

SchemeChars ==
    "abcdefghijklmnopqrstuvwxyzABCDEFGHIJKLMNOPQRSTUVWXYZ0123456789+-."
Letters == "abcdefghijklmnopqrstuvwxyzABCDEFGHIJKLMNOPQRSTUVWXYZ"

AllIn(s, chars) == \A i \in 1..Len(s) : Find(chars, SubSeq(s, i, i), 1) > 0

\* the least positive of the three indices, 0 when none is positive
MinPos(a, b, c) ==
    LET ps == { x \in {a, b, c} : x > 0 }
    IN IF ps = {} THEN 0 ELSE CHOOSE x \in ps : \A y \in ps : x <= y

\* urllib.parse.urlparse(url): the scheme, the network location and the path
urlparse(url) ==
    LET i == Find(url, ":", 1)
        hasScheme == /\ i > 1
                     /\ Find(Letters, SubSeq(url, 1, 1), 1) > 0
                     /\ AllIn(SubSeq(url, 1, i - 1), SchemeChars)
        scheme == IF hasScheme THEN SubSeq(url, 1, i - 1) ELSE ""
        rest == IF hasScheme THEN SubSeq(url, i + 1, Len(url)) ELSE url
        hasNet == StartsWith(rest, "//")
        d == MinPos(Find(rest, "/", 3), Find(rest, "?", 3), Find(rest, "#", 3))
        netloc == IF ~hasNet THEN ""
                  ELSE IF d = 0 THEN SubSeq(rest, 3, Len(rest))
                  ELSE SubSeq(rest, 3, d - 1)
        after == IF ~hasNet THEN rest
                 ELSE IF d = 0 THEN "" ELSE SubSeq(rest, d, Len(rest))
        q == MinPos(Find(after, "?", 1), Find(after, "#", 1), 0)
        path == IF q = 0 THEN after ELSE SubSeq(after, 1, q - 1)
    IN [scheme |-> scheme, netloc |-> netloc, path |-> path]

Sanitize(raw_id) == Replace(Replace(Replace(raw_id, ".", "_"), "/", "_"), ":", "_")

extract_repo_id(repo) ==
    IF StartsWith(repo, GIT_SSH_PREFIX)
    THEN LET host_and_path == SubSeq(repo, Len(GIT_SSH_PREFIX) + 1, Len(repo))
             c == Find(host_and_path, ":", 1)
         IN IF c = 0 THEN ValueError   \* host, path = ...split(":", 1) cannot unpack
            ELSE LET host == SubSeq(host_and_path, 1, c - 1)
                     path == RemoveSuffix(
                                RStrip(SubSeq(host_and_path, c + 1, Len(host_and_path)), "/"),
                                GIT_SUFFIX)
                 IN Sanitize(host \o "/" \o path)
    ELSE LET parsed == urlparse(repo)
         IN IF parsed.netloc /= ""
            THEN Sanitize(parsed.netloc \o "/"
                          \o LStrip(RemoveSuffix(RStrip(parsed.path, "/"), GIT_SUFFIX), "/"))
            ELSE Sanitize(LStrip(RemoveSuffix(RStrip(repo, "/"), GIT_SUFFIX), "/"))

(***************************************************************************)
(* The workspace layout.                                                   *)
(***************************************************************************)
\* get_grv_root(): GRV_ROOT
GrvRoot == "w"

\* the repository references a user passes to the commands
Urls == { "git@h:u/a.git", "https://h/u/b/" }

\* the branch each remote's HEAD names
RemoteHead(repo) == IF repo = "git@h:u/a.git" THEN "main" ELSE "master"

\* the <repo> [branch] arguments a user passes to the commands
Requests ==
    { <<"git@h:u/a.git", None>>, <<"git@h:u/a.git", "feat">>,
      <<"git@h:u/a.git", "fix/x">>, <<"https://h/u/b/", "feat">> }

\* the base branches a user passes with --from
FromArgs == { "develop" }

RepoIds == { extract_repo_id(u) : u \in Urls }

RepoPath(repo_id) == PathJoin(PathJoin(GrvRoot, REPOS_DIR), repo_id)
TrunkPath(repo_id) == PathJoin(RepoPath(repo_id), TRUNK_DIR)
TreeBranchesPath(repo_id) == PathJoin(RepoPath(repo_id), TREE_BRANCHES_DIR)
TreePath(repo_id, branch) == PathJoin(TreeBranchesPath(repo_id), branch)

(***************************************************************************)
(* State.                                                                  *)
(*   dirs  the directories that exist on disk                              *)
(*   git   per repository, what git keeps in the trunk: whether the clone  *)
(*         is complete, origin/HEAD, the trunk's HEAD, whether HEAD is     *)
(*         behind the origin/<default> last fetched, the local branches    *)
(*         and the registered worktrees in the order git lists them        *)
(*   last  the command that is running or has just ended: its arguments,  *)
(*         the git invocations it issued, its output, its exit status and  *)
(*         whether it changed the workspace; "none" between two commands   *)
(***************************************************************************)
VARIABLES dirs, git, last

vars == <<dirs, git, last>>

NoGit == [cloned |-> FALSE, default |-> None, head |-> None, behind |-> FALSE,
          branches |-> {}, worktrees |-> <<>>]

\* the repository a path of the workspace belongs to: the component after
\* <root>/repos
RepoOf(path) ==
    IF StartsWith(path, RepoPath(""))
    THEN Parts(SubSeq(path, Len(RepoPath("")) + 1, Len(path)))[1]
    ELSE None

\* path is the trunk of a repository whose clone is complete
IsRepo(g, path) ==
    /\ RepoOf(path) \in DOMAIN g
    /\ path = TrunkPath(RepoOf(path))
    /\ g[RepoOf(path)].cloned

(***************************************************************************)
(* A command runs in a context: the workspace, the log of its git          *)
(* invocations, the number of run_git calls so far, whether it is still    *)
(* running (no exception raised) and the value its last call returned.     *)
(* The input o of a command says what git and the remote answer:           *)
(*   o.fail      the run_git call that exits non-zero (0: none)            *)
(*   o.on_remote whether ls-remote finds the branch on origin              *)
(*   o.remnant   whether a failing clone leaves its directory behind       *)
(*   o.advanced  whether a fetch brings new commits of origin/<default>    *)
(***************************************************************************)
\* run_git calls one command can make
MaxGitCalls == 7

Context(d, g) ==
    [dirs |-> d, git |-> g, log |-> <<>>, n |-> 0, ok |-> TRUE, ret |-> None]

\* one git invocation: who issued it, its arguments, its directory, its exit
\* status and what it wrote to standard output
Entry(by, argv, cwd, rc, stdout) ==
    [by |-> by, argv |-> argv, cwd |-> cwd, rc |-> rc, stdout |-> stdout]

\* subprocess.run(["git", ...]) without check: a non-zero exit is not raised
run_git_unchecked(c, o, by, argv, cwd, stdout) ==
    LET k == c.n + 1
        rc == IF k = o.fail \/ (cwd /= None /\ ~IsRepo(c.git, cwd)) THEN 1 ELSE 0
    IN [c EXCEPT !.n = k,
                 !.log = Append(@, Entry(by, argv, cwd, rc, IF rc = 0 THEN stdout ELSE ""))]

\* subprocess.run(["git", ...], check=True): a non-zero exit raises
run_git(c, o, by, argv, cwd, stdout) ==
    LET k == c.n + 1
        rc == IF k = o.fail \/ (cwd /= None /\ ~IsRepo(c.git, cwd)) THEN 1 ELSE 0
    IN [c EXCEPT !.n = k, !.ok = (rc = 0),
                 !.log = Append(@, Entry(by, argv, cwd, rc, IF rc = 0 THEN stdout ELSE ""))]

get_default_branch(c, o, by, repo_path) ==
    Bind("refs/remotes/origin/" \o c.git[RepoOf(repo_path)].default, LAMBDA stdout :
    Bind(run_git(c, o, by, <<"symbolic-ref", GIT_REF_REMOTE_HEAD>>, repo_path, stdout),
         LAMBDA c1 :
    Bind(Split(stdout, "/"), LAMBDA parts :
    IF c1.ok THEN [c1 EXCEPT !.ret = parts[Len(parts)]] ELSE c1)))

\* subprocess.run(["git", "show-ref", ...]): the exit status is the answer
branch_exists_locally(c, by, base_path, branch) ==
    LET ref == GIT_REF_HEADS_PREFIX \o branch
        found == IsRepo(c.git, base_path) /\ branch \in c.git[RepoOf(base_path)].branches
    IN [c EXCEPT !.ret = found,
                 !.log = Append(@, Entry(by, <<"show-ref", "--verify", "--quiet", ref>>,
                                         base_path, IF found THEN 0 ELSE 1, ""))]

\* git checkout --detach <ref> that leaves HEAD where it was
checkout_detach_kept(c, o, by, base_path) ==
    run_git(c, o, by, <<"checkout", "--detach", GIT_REMOTE_NAME \o "/" \o c.ret>>,
            base_path, "")

\* git checkout --detach <ref> in the trunk
checkout_detach(c, o, by, base_path) ==
    Bind(GIT_REMOTE_NAME \o "/" \o c.ret, LAMBDA detach_ref :
    Bind(run_git(c, o, by, <<"checkout", "--detach", detach_ref>>, base_path, ""),
         LAMBDA c1 :
    IF c1.ok THEN [c1 EXCEPT !.git[RepoOf(base_path)].head = detach_ref,
                             !.git[RepoOf(base_path)].behind = FALSE]
    ELSE c1))

\* ensure_base_repo once the trunk is fetched or cloned
detach_default_branch(c, o, by, base_path) ==
    Bind(get_default_branch(c, o, by, base_path), LAMBDA c1 :
    IF c1.ok THEN checkout_detach(c1, o, by, base_path) ELSE c1)

\* what git clone leaves: the trunk with origin's branch checked out, or,
\* failing, nothing or the directory it had created
clone(c, o, repo_url, base_path) ==
    IF c.ok
    THEN [c EXCEPT !.dirs = @ \cup {base_path},
                   !.git[RepoOf(base_path)] =
                       [cloned |-> TRUE,
                        default |-> RemoteHead(repo_url),
                        head |-> RemoteHead(repo_url),
                        behind |-> FALSE,
                        branches |-> {RemoteHead(repo_url)},
                        worktrees |-> <<>>]]
    ELSE IF o.remnant THEN [c EXCEPT !.dirs = @ \cup {base_path}]
    ELSE c

\* what git fetch --all --prune leaves: with new commits on the remote, HEAD
\* is behind origin/<default>
fetch(c, o, base_path) ==
    IF c.ok THEN [c EXCEPT !.git[RepoOf(base_path)].behind = @ \/ o.advanced]
    ELSE c

\* ensure_base_repo that leaves an existing trunk where the fetch found it
ensure_base_repo_fetch_only(c, o, repo_url, base_path) ==
    LET by == "ensure_base_repo"
    IN IF base_path \in c.dirs
       THEN fetch(run_git(c, o, by, <<"fetch", "--all", "--prune">>, base_path, ""),
                  o, base_path)
       ELSE Bind([c EXCEPT !.dirs = @ \cup Ancestors(Parent(base_path))], LAMBDA c0 :
            Bind(run_git(c0, o, by,
                         <<"clone", GIT_CLONE_FILTER, repo_url, base_path>>, None, ""),
                 LAMBDA c1 :
            Bind(clone(c1, o, repo_url, base_path), LAMBDA c2 :
            IF c2.ok THEN detach_default_branch(c2, o, by, base_path) ELSE c2)))

\* ensure_base_repo that clones again over a directory that is no repository
ensure_base_repo_repairing(c, o, repo_url, base_path) ==
    LET by == "ensure_base_repo"
    IN IF base_path \in c.dirs /\ IsRepo(c.git, base_path)
       THEN Bind(run_git(c, o, by, <<"fetch", "--all", "--prune">>, base_path, ""),
                 LAMBDA c0 :
            Bind(fetch(c0, o, base_path), LAMBDA c1 :
            IF c1.ok THEN detach_default_branch(c1, o, by, base_path) ELSE c1))
       ELSE Bind([c EXCEPT !.dirs = @ \cup Ancestors(Parent(base_path))], LAMBDA c0 :
            Bind(run_git(c0, o, by,
                         <<"clone", GIT_CLONE_FILTER, repo_url, base_path>>, None, ""),
                 LAMBDA c1 :
            Bind(clone(c1, o, repo_url, base_path), LAMBDA c2 :
            IF c2.ok THEN detach_default_branch(c2, o, by, base_path) ELSE c2)))

ensure_base_repo(c, o, repo_url, base_path) ==
    LET by == "ensure_base_repo"
    IN IF base_path \in c.dirs
       THEN Bind(run_git(c, o, by, <<"fetch", "--all", "--prune">>, base_path, ""),
                 LAMBDA c0 :
            Bind(fetch(c0, o, base_path), LAMBDA c1 :
            IF c1.ok THEN detach_default_branch(c1, o, by, base_path) ELSE c1))
       ELSE Bind([c EXCEPT !.dirs = @ \cup Ancestors(Parent(base_path))], LAMBDA c0 :
            Bind(run_git(c0, o, by,
                         <<"clone", GIT_CLONE_FILTER, repo_url, base_path>>, None, ""),
                 LAMBDA c1 :
            Bind(clone(c1, o, repo_url, base_path), LAMBDA c2 :
            IF c2.ok THEN detach_default_branch(c2, o, by, base_path) ELSE c2)))

\* git worktree add ... run in the trunk: the directory, the registration and,
\* with -b, the new local branch
worktree_add(c, o, by, argv, base_path, tree_path, branch) ==
    Bind(run_git(c, o, by, argv, base_path, ""), LAMBDA c1 :
    IF c1.ok
    THEN [c1 EXCEPT !.dirs = @ \cup Ancestors(tree_path),
                    !.git[RepoOf(base_path)].worktrees =
                        Append(@, [path |-> tree_path, branch |-> branch]),
                    !.git[RepoOf(base_path)].branches = @ \cup {branch}]
    ELSE c1)

\* the new branch started from the local branch of that name
NewBranchBaseLocal(base_branch) == base_branch

\* the start point of a branch that exists neither locally nor on the remote
NewBranchBase(base_branch) == GIT_REMOTE_NAME \o "/" \o base_branch

\* ensure_worktree for a branch that is neither local nor on the remote
worktree_add_new_branch(c, o, by, base_path, tree_path, branch, from_branch) ==
    Bind(IF from_branch /= None THEN [c EXCEPT !.ret = from_branch]
         ELSE get_default_branch(c, o, by, base_path), LAMBDA c1 :
    IF ~c1.ok THEN c1
    ELSE worktree_add(c1, o, by,
                      <<"worktree", "add", "-b", branch, tree_path, NewBranchBase(c1.ret)>>,
                      base_path, tree_path, branch))

\* ensure_worktree that asks the remote before it reads the local ref
create_worktree_remote_first(c, o, base_path, tree_path, branch, from_branch) ==
    LET by == "ensure_worktree"
    IN Bind([c EXCEPT !.dirs = @ \cup Ancestors(Parent(tree_path))], LAMBDA c0 :
       Bind(run_git(c0, o, by,
                    <<"ls-remote", "--heads", GIT_REMOTE_NAME, branch>>, base_path,
                    IF o.on_remote THEN "sha\trefs/heads/" \o branch ELSE ""),
            LAMBDA c2 :
       IF ~c2.ok THEN c2
       ELSE IF o.on_remote
       THEN worktree_add(c2, o, by,
                <<"worktree", "add", "--track", "-b", branch, tree_path,
                  GIT_REMOTE_NAME \o "/" \o branch>>,
                base_path, tree_path, branch)
       ELSE Bind(branch_exists_locally(c2, by, base_path, branch), LAMBDA c1 :
            IF c1.ret
            THEN worktree_add(c1, o, by, <<"worktree", "add", tree_path, branch>>,
                              base_path, tree_path, branch)
            ELSE worktree_add_new_branch(c1, o, by, base_path, tree_path, branch,
                                         from_branch))))

\* ensure_worktree once the worktree's path is known not to exist
create_worktree(c, o, base_path, tree_path, branch, from_branch) ==
    LET by == "ensure_worktree"
    IN Bind([c EXCEPT !.dirs = @ \cup Ancestors(Parent(tree_path))], LAMBDA c0 :
       Bind(branch_exists_locally(c0, by, base_path, branch), LAMBDA c1 :
       IF c1.ret
       THEN worktree_add(c1, o, by, <<"worktree", "add", tree_path, branch>>,
                         base_path, tree_path, branch)
       ELSE Bind(run_git(c1, o, by,
                         <<"ls-remote", "--heads", GIT_REMOTE_NAME, branch>>, base_path,
                         IF o.on_remote THEN "sha\trefs/heads/" \o branch ELSE ""),
                 LAMBDA c2 :
            IF ~c2.ok THEN c2
            ELSE IF o.on_remote
            THEN worktree_add(c2, o, by,
                     <<"worktree", "add", "--track", "-b", branch, tree_path,
                       GIT_REMOTE_NAME \o "/" \o branch>>,
                     base_path, tree_path, branch)
            ELSE worktree_add_new_branch(c2, o, by, base_path, tree_path, branch,
                                         from_branch))))

\* ensure_worktree without its test of the worktree's path
ensure_worktree_unconditional(c, o, base_path, tree_path, branch, from_branch) ==
    create_worktree(c, o, base_path, tree_path, branch, from_branch)

ensure_worktree(c, o, base_path, tree_path, branch, from_branch) ==
    IF tree_path \in c.dirs THEN c
    ELSE create_worktree(c, o, base_path, tree_path, branch, from_branch)

(***************************************************************************)
(* The status of a worktree (src/src/grv/status.py).                       *)
(***************************************************************************)
BranchStatus(name, path, has_remote, is_merged, unpushed, uncommitted, ins, dels) ==
    [name |-> name, path |-> path, has_remote |-> has_remote,
     is_merged |-> is_merged, unpushed_commits |-> unpushed,
     uncommitted_changes |-> uncommitted, insertions |-> ins, deletions |-> dels]

\* no status evaluated
NoStatus == BranchStatus(None, None, FALSE, FALSE, 0, 0, 0, 0)

\* is_safe_to_clean without the test of uncommitted changes
is_safe_to_clean_ignoring_uncommitted(self) ==
    self.has_remote /\ self.unpushed_commits = 0

\* is_safe_to_clean without the test of the remote branch
is_safe_to_clean_ignoring_remote(self) ==
    self.unpushed_commits = 0 /\ self.uncommitted_changes = 0

\* is_safe_to_clean asking for a merged branch as well
is_safe_to_clean_merged_only(self) ==
    /\ self.has_remote /\ self.is_merged
    /\ self.unpushed_commits = 0 /\ self.uncommitted_changes = 0

\* is_safe_to_clean that lets a merged branch pass whatever is unpushed
is_safe_to_clean_merged_first(self) ==
    /\ self.uncommitted_changes = 0
    /\ \/ self.is_merged
       \/ self.has_remote /\ self.unpushed_commits = 0

\* BranchStatus.is_safe_to_clean
is_safe_to_clean(self) ==
    /\ self.has_remote
    /\ self.unpushed_commits = 0
    /\ self.uncommitted_changes = 0

\* the BranchStatus values the dataclass admits, within the bounds
BranchStatuses ==
    { BranchStatus("feat", TreePath("h_u_a", "feat"), hr, mg, up, uc, ins, dels) :
        hr \in BOOLEAN, mg \in BOOLEAN, up \in 0..MaxUnpushed,
        uc \in 0..(2 * MaxLines), ins \in 0..MaxLines, dels \in 0..MaxLines }

(***************************************************************************)
(* grv shell <repo> [branch] [--from=<base>] (remote mode).                *)
(***************************************************************************)
Oracles ==
    { o \in [fail : 0..MaxGitCalls, on_remote : BOOLEAN, remnant : BOOLEAN,
             advanced : {FALSE}] :
        o.remnant => o.fail = 1 }

\* what git answers to the trunk setup, the remote's default branch moving or
\* not between two commands
TrunkOracles ==
    { o \in [fail : 0..3, on_remote : {FALSE}, remnant : BOOLEAN, advanced : BOOLEAN] :
        o.remnant => o.fail = 1 }

\* the worktree placed in the repository directory, beside trunk
prepare_tree_beside_trunk(c, o, repo_id, trunk_path, from_branch) ==
    Bind(c.ret, LAMBDA target_branch :
    Bind(PathJoin(RepoPath(repo_id), target_branch), LAMBDA tree_path :
    Bind(IF c.ok
         THEN ensure_worktree(c, o, trunk_path, tree_path, target_branch, from_branch)
         ELSE c, LAMBDA c1 :
    [ctx |-> c1,
     tree_path |-> IF c.ok THEN tree_path ELSE None,
     branch |-> IF c.ok THEN target_branch ELSE None,
     wt_called |-> c.ok,
     tree_existed |-> c.ok /\ tree_path \in c.dirs,
     wt_changed |-> c.ok /\ (c1.dirs /= c.dirs \/ c1.git /= c.git)])))

\* _prepare_remote_worktree once the trunk is ready and the branch is known
prepare_tree(c, o, repo_id, trunk_path, from_branch) ==
    Bind(c.ret, LAMBDA target_branch :
    Bind(TreePath(repo_id, target_branch), LAMBDA tree_path :
    Bind(IF c.ok
         THEN ensure_worktree(c, o, trunk_path, tree_path, target_branch, from_branch)
         ELSE c, LAMBDA c1 :
    [ctx |-> c1,
     tree_path |-> IF c.ok THEN tree_path ELSE None,
     branch |-> IF c.ok THEN target_branch ELSE None,
     wt_called |-> c.ok,
     tree_existed |-> c.ok /\ tree_path \in c.dirs,
     wt_changed |-> c.ok /\ (c1.dirs /= c.dirs \/ c1.git /= c.git)])))

\* _prepare_remote_worktree that goes on to the worktree whatever became of
\* the trunk
_prepare_remote_worktree_unguarded(c, o, repo, branch, from_branch) ==
    Bind(extract_repo_id(repo), LAMBDA repo_id :
    Bind(TrunkPath(repo_id), LAMBDA trunk_path :
    Bind(ensure_base_repo(c, o, repo, trunk_path), LAMBDA c1 :
    Bind(IF branch /= None THEN [c1 EXCEPT !.ret = branch, !.ok = TRUE]
         ELSE get_default_branch(c1, o, "_prepare_remote_worktree", trunk_path),
         LAMBDA c2 :
    prepare_tree(c2, o, repo_id, trunk_path, from_branch)))))

\* _prepare_remote_worktree: the context after it, and the path and branch
_prepare_remote_worktree(c, o, repo, branch, from_branch) ==
    Bind(extract_repo_id(repo), LAMBDA repo_id :
    Bind(TrunkPath(repo_id), LAMBDA trunk_path :
    Bind(ensure_base_repo(c, o, repo, trunk_path), LAMBDA c1 :
    Bind(IF ~c1.ok THEN c1
         ELSE IF branch /= None THEN [c1 EXCEPT !.ret = branch]
         ELSE get_default_branch(c1, o, "_prepare_remote_worktree", trunk_path),
         LAMBDA c2 :
    prepare_tree(c2, o, repo_id, trunk_path, from_branch)))))

NoCommand ==
    [cmd |-> "none", repo |-> None, branch |-> None, from_branch |-> None,
     dry_run |-> FALSE, force |-> FALSE, log |-> <<>>, out |-> <<>>, exit |-> 0,
     tree_path |-> None, target_branch |-> None, entered |-> None,
     wt_called |-> FALSE, tree_existed |-> FALSE, wt_changed |-> FALSE,
     mutated |-> FALSE,
     status |-> NoStatus, safe |-> FALSE,
     pc |-> "done", action |-> None, prompted |-> FALSE, answer |-> FALSE,
     all_branches |-> <<>>, i |-> 0, to_clean |-> <<>>, skipped |-> <<>>,
     reported |-> FALSE, listed |-> <<>>, count |-> 0, affected |-> {}, repos_removed |-> 0,
     removals |-> <<>>, ret |-> None,
     again |-> FALSE, prior |-> <<>>]

\* shell: the worktree is prepared, then _enter_shell changes to it and execs;
\* the arguments and what git answers are drawn from the given sets
ShellFor(requests, from_args, oracles) ==
    /\ last.cmd = "none"
    /\ \E rq \in requests, from_branch \in from_args, o \in oracles :
        \E p \in { _prepare_remote_worktree(Context(dirs, git), o, rq[1], rq[2],
                                            from_branch) } :
           /\ dirs' = p.ctx.dirs
           /\ git' = p.ctx.git
           /\ last' = [NoCommand EXCEPT
                         !.cmd = "shell", !.repo = rq[1], !.branch = rq[2],
                         !.from_branch = from_branch, !.log = p.ctx.log,
                         !.exit = IF p.ctx.ok THEN 0 ELSE 1,
                         !.tree_path = p.tree_path, !.target_branch = p.branch,
                         !.wt_called = p.wt_called, !.tree_existed = p.tree_existed,
                         !.wt_changed = p.wt_changed,
                         !.entered = IF p.ctx.ok THEN p.tree_path ELSE None,
                         !.mutated = (p.ctx.dirs /= dirs \/ p.ctx.git /= git)]

Shell == ShellFor(Requests, FromArgs \cup {None}, Oracles)

\* grv shell <repo>, for the default branch: git fails in the trunk setup or
\* not at all
ShellDefault ==
    ShellFor({ rq \in Requests : rq[2] = None } \cup { <<"https://h/u/b/", None>> },
             {None}, TrunkOracles)

\* the command has ended; the next invocation starts from the workspace it left
Exit ==
    /\ last.cmd /= "none"
    /\ last.pc = "done"
    /\ last' = NoCommand
    /\ UNCHANGED <<dirs, git>>

Init ==
    /\ dirs = {}
    /\ git = [r \in RepoIds |-> NoGit]
    /\ last = NoCommand

Next == Shell \/ Exit

Spec == Init /\ [][Next]_vars

NextRetry == ShellDefault \/ Exit

\* shell commands for the default branch, run one after the other: a command
\* that has ended leaves the terminal to the next one
SpecRetry == Init /\ [][NextRetry]_vars /\ WF_vars(Exit)

\* grv dir <repo> [branch] [--from=<base>]: the worktree is prepared as shell
\* prepares it, and its path is printed to standard output; no shell is
\* entered.  The command's code is not among the sources: this is the
\* command as section "CLI surface" of the specification and TestDir
\* describe it.
Dir ==
    /\ last.cmd = "none"
    /\ \E rq \in Requests, from_branch \in FromArgs \cup {None}, o \in Oracles :
        \E p \in { _prepare_remote_worktree(Context(dirs, git), o, rq[1], rq[2],
                                            from_branch) } :
           /\ dirs' = p.ctx.dirs
           /\ git' = p.ctx.git
           /\ last' = [NoCommand EXCEPT
                         !.cmd = "dir", !.repo = rq[1], !.branch = rq[2],
                         !.from_branch = from_branch, !.log = p.ctx.log,
                         !.exit = IF p.ctx.ok THEN 0 ELSE 1,
                         !.tree_path = p.tree_path, !.target_branch = p.branch,
                         !.wt_called = p.wt_called, !.tree_existed = p.tree_existed,
                         !.wt_changed = p.wt_changed,
                         !.out = IF p.ctx.ok THEN <<p.tree_path>> ELSE <<>>,
                         !.mutated = (p.ctx.dirs /= dirs \/ p.ctx.git /= git)]

NextDir == Dir \/ Exit

SpecDir == Init /\ [][NextDir]_vars

(***************************************************************************)
(* gtwsp, the earlier package of the repository (src/src/gtwsp): the same  *)
(* layout and trunk setup as grv, with its own ensure_worktree in          *)
(* gtwsp/git.py and a second copy in gtwsp/cli.py, which its shell calls.  *)
(***************************************************************************)
\* get_gitwsp_root(): GITWSP_ROOT
GitwspRoot == GrvRoot

gtwsp_extract_repo_id(repo) == extract_repo_id(repo)

\* gtwsp/git.py:78-86: the start point is the default branch's bare name
gtwsp_git_new_branch_base(default_branch) == default_branch

\* gtwsp/cli.py:109-110: the start point is the default branch's bare name
gtwsp_cli_new_branch_base(default_branch) == default_branch

\* ensure_worktree of gtwsp once the worktree's path is known not to exist;
\* by names the copy that runs
gtwsp_create_worktree(c, o, by, base_path, tree_path, branch) ==
    Bind([c EXCEPT !.dirs = @ \cup Ancestors(Parent(tree_path))], LAMBDA c0 :
    Bind(branch_exists_locally(c0, by, base_path, branch), LAMBDA c1 :
    IF c1.ret
    THEN worktree_add(c1, o, by, <<"worktree", "add", tree_path, branch>>,
                      base_path, tree_path, branch)
    ELSE Bind(run_git(c1, o, by, <<"ls-remote", "--heads", "origin", branch>>,
                      base_path,
                      IF o.on_remote THEN "sha\trefs/heads/" \o branch ELSE ""),
              LAMBDA c2 :
         IF ~c2.ok THEN c2
         ELSE IF o.on_remote
         THEN worktree_add(c2, o, by,
                  <<"worktree", "add", "--track", "-b", branch, tree_path,
                    "origin/" \o branch>>,
                  base_path, tree_path, branch)
         ELSE Bind(get_default_branch(c2, o, by, base_path), LAMBDA c3 :
              IF ~c3.ok THEN c3
              ELSE worktree_add(c3, o, by,
                       <<"worktree", "add", "-b", branch, tree_path,
                         IF by = "gtwsp.git.ensure_worktree"
                         THEN gtwsp_git_new_branch_base(c3.ret)
                         ELSE gtwsp_cli_new_branch_base(c3.ret)>>,
                       base_path, tree_path, branch)))))

\* gtwsp.git.ensure_worktree
gtwsp_git_ensure_worktree(c, o, base_path, tree_path, branch) ==
    IF tree_path \in c.dirs THEN c
    ELSE gtwsp_create_worktree(c, o, "gtwsp.git.ensure_worktree",
                               base_path, tree_path, branch)

\* gtwsp.cli.ensure_worktree
gtwsp_cli_ensure_worktree(c, o, base_path, tree_path, branch) ==
    IF tree_path \in c.dirs THEN c
    ELSE gtwsp_create_worktree(c, o, "gtwsp.cli.ensure_worktree",
                               base_path, tree_path, branch)

\* gtwsp.cli.ensure_base_repo: the calls of grv's, in the same order
gtwsp_ensure_base_repo(c, o, repo_url, base_path) ==
    ensure_base_repo(c, o, repo_url, base_path)

\* gtwsp.cli.shell up to the change of directory
gtwsp_shell(c, o, repo, branch) ==
    Bind(PathJoin(PathJoin(PathJoin(GitwspRoot, "repos"), gtwsp_extract_repo_id(repo)),
                  "trunk"), LAMBDA trunk_path :
    Bind(gtwsp_ensure_base_repo(c, o, repo, trunk_path), LAMBDA c1 :
    Bind(IF ~c1.ok THEN c1
         ELSE IF branch /= None THEN [c1 EXCEPT !.ret = branch]
         ELSE get_default_branch(c1, o, "gtwsp.cli.shell", trunk_path), LAMBDA c2 :
    Bind(IF c2.ok THEN PathJoin(PathJoin(Parent(trunk_path), "tree_branches"), c2.ret)
         ELSE None, LAMBDA tree_path :
    [ctx |-> IF c2.ok
             THEN gtwsp_cli_ensure_worktree(c2, o, trunk_path, tree_path, c2.ret)
             ELSE c2,
     tree_path |-> tree_path,
     branch |-> IF c2.ok THEN c2.ret ELSE None]))))

\* gtwsp shell <repo> [branch]
GtwspShell ==
    /\ last.cmd = "none"
    /\ \E rq \in Requests, o \in Oracles :
        \E p \in { gtwsp_shell(Context(dirs, git), o, rq[1], rq[2]) } :
           /\ dirs' = p.ctx.dirs
           /\ git' = p.ctx.git
           /\ last' = [NoCommand EXCEPT
                         !.cmd = "gtwsp.shell", !.repo = rq[1], !.branch = rq[2],
                         !.log = p.ctx.log,
                         !.exit = IF p.ctx.ok THEN 0 ELSE 1,
                         !.tree_path = p.tree_path, !.target_branch = p.branch,
                         !.entered = IF p.ctx.ok THEN p.tree_path ELSE None,
                         !.mutated = (p.ctx.dirs /= dirs \/ p.ctx.git /= git)]

\* gtwsp.git.ensure_worktree called for a branch of a repository of the workspace
GtwspEnsureWorktree ==
    /\ last.cmd = "none"
    /\ \E rq \in { r \in Requests : r[2] /= None },
          o \in { g \in Oracles : g.fail <= 3 /\ ~g.remnant } :
        \E repo_id \in { gtwsp_extract_repo_id(rq[1]) } :
        \E c \in { gtwsp_git_ensure_worktree(Context(dirs, git), o, TrunkPath(repo_id),
                                             TreePath(repo_id, rq[2]), rq[2]) } :
           /\ TrunkPath(repo_id) \in dirs
           /\ dirs' = c.dirs
           /\ git' = c.git
           /\ last' = [NoCommand EXCEPT
                         !.cmd = "gtwsp.ensure_worktree", !.repo = rq[1],
                         !.branch = rq[2], !.log = c.log,
                         !.exit = IF c.ok THEN 0 ELSE 1,
                         !.tree_path = TreePath(repo_id, rq[2]),
                         !.target_branch = rq[2],
                         !.mutated = (c.dirs /= dirs \/ c.git /= git)]

NextGtwsp == GtwspShell \/ GtwspEnsureWorktree \/ Exit

SpecGtwsp == Init /\ [][NextGtwsp]_vars

(***************************************************************************)
(* str methods used to read git's output (src/src/grv/status.py).          *)
(***************************************************************************)
\* the characters str.strip() removes
Whitespace == " \t\n"

\* str.lstrip(chars)
RECURSIVE lstrip(_, _)
lstrip(s, chars) ==
    IF Len(s) > 0 /\ Find(chars, SubSeq(s, 1, 1), 1) > 0
    THEN lstrip(SubSeq(s, 2, Len(s)), chars) ELSE s

\* str.rstrip(chars)
RECURSIVE rstrip(_, _)
rstrip(s, chars) ==
    IF Len(s) > 0 /\ Find(chars, SubSeq(s, Len(s), Len(s)), 1) > 0
    THEN rstrip(SubSeq(s, 1, Len(s) - 1), chars) ELSE s

\* str.strip()
strip(s) == lstrip(rstrip(s, Whitespace), Whitespace)

Digits == "0123456789"

IsDigit(ch) == Find(Digits, ch, 1) > 0

\* int(s) for a string of decimal digits
RECURSIVE int(_)
int(s) ==
    IF Len(s) = 0 THEN 0
    ELSE 10 * int(SubSeq(s, 1, Len(s) - 1)) + (Find(Digits, SubSeq(s, Len(s), Len(s)), 1) - 1)

\* str(n) for a natural number
RECURSIVE str(_)
str(n) ==
    IF n < 10 THEN SubSeq(Digits, n + 1, n + 1)
    ELSE str(n \div 10) \o SubSeq(Digits, (n % 10) + 1, (n % 10) + 1)

\* where the run of digits that ends at position j of s starts
RECURSIVE DigitsStart(_, _)
DigitsStart(s, j) ==
    IF j > 1 /\ IsDigit(SubSeq(s, j - 1, j - 1)) THEN DigitsStart(s, j - 1) ELSE j

\* re.search(r"(\d+) <word>", s): group 1 of the leftmost match, None without one
re_search_count(s, word) ==
    Bind({ j \in 2..(Len(s) - Len(word)) :
             /\ SubSeq(s, j, j + Len(word)) = " " \o word
             /\ IsDigit(SubSeq(s, j - 1, j - 1)) },
         LAMBDA hits :
    IF hits = {} THEN None
    ELSE SubSeq(s, DigitsStart(s, Least(hits) - 1), Least(hits) - 1))

\* the characters of the names the model uses, in code point order
Alphabet == "-./0123456789:@ABCDEFGHIJKLMNOPQRSTUVWXYZ_abcdefghijklmnopqrstuvwxyz"

\* a < b for two strings
RECURSIVE StrLess(_, _)
StrLess(a, b) ==
    IF Len(b) = 0 THEN FALSE
    ELSE IF Len(a) = 0 THEN TRUE
    ELSE IF SubSeq(a, 1, 1) = SubSeq(b, 1, 1)
    THEN StrLess(SubSeq(a, 2, Len(a)), SubSeq(b, 2, Len(b)))
    ELSE Find(Alphabet, SubSeq(a, 1, 1), 1) < Find(Alphabet, SubSeq(b, 1, 1), 1)

\* sorted(items) for (name, path) pairs: by name, then by path
PairLess(p, q) ==
    StrLess(p.name, q.name) \/ (p.name = q.name /\ StrLess(p.path, q.path))

\* the sequence with item placed before the first element that is not less
RECURSIVE Insert(_, _)
Insert(item, sorted_items) ==
    IF sorted_items = <<>> THEN <<item>>
    ELSE IF PairLess(Head(sorted_items), item)
    THEN <<Head(sorted_items)>> \o Insert(item, Tail(sorted_items))
    ELSE <<item>> \o sorted_items

RECURSIVE sorted(_)
sorted(items) ==
    IF items = <<>> THEN <<>> ELSE Insert(Head(items), sorted(Tail(items)))

(***************************************************************************)
(* The repositories and worktrees of the workspace, and the status of a    *)
(* worktree (src/src/grv/status.py).                                       *)
(***************************************************************************)
\* subprocess.run(["git", ...]) without check: the result is returned
subprocess_run(c, by, argv, cwd, rc, stdout) ==
    [c EXCEPT !.log = Append(@, Entry(by, argv, cwd, rc, stdout)),
              !.ret = [returncode |-> rc, stdout |-> stdout]]

\* Path.iterdir(): the entries of a directory, in no particular order
RECURSIVE iterdir(_)
iterdir(entries) ==
    IF entries = {} THEN <<>>
    ELSE Bind(CHOOSE e \in entries : TRUE, LAMBDA e :
         <<e>> \o iterdir(entries \ {e}))

\* Path.name
PathName(p) == Bind(Parts(p), LAMBDA ps : ps[Len(ps)])

get_all_repos(d) ==
    Bind(PathJoin(GrvRoot, REPOS_DIR), LAMBDA repos_dir :
    IF repos_dir \notin d THEN <<>>
    ELSE sorted(iterdir({ [name |-> PathName(repo_dir), path |-> repo_dir] :
                            repo_dir \in { p \in d : /\ Under(p, repos_dir)
                                                     /\ Parent(p) = repos_dir
                                                     /\ PathJoin(p, TRUNK_DIR) \in d } })))

\* one block of git worktree list --porcelain
WorktreeBlock(path, ref_line) ==
    "worktree " \o path \o "\nHEAD sha\n" \o ref_line \o "\n\n"

RECURSIVE WorktreeBlocks(_)
WorktreeBlocks(worktrees) ==
    IF worktrees = <<>> THEN ""
    ELSE WorktreeBlock(Head(worktrees).path,
                       "branch " \o GIT_REF_HEADS_PREFIX \o Head(worktrees).branch)
         \o WorktreeBlocks(Tail(worktrees))

\* git worktree list --porcelain run in the trunk: the trunk, then the
\* registered worktrees; list_fail says that git exits non-zero
git_worktree_list(c, list_fail, trunk_path) ==
    IF list_fail \/ ~IsRepo(c.git, trunk_path)
    THEN subprocess_run(c, "_find_worktrees", <<"worktree", "list", "--porcelain">>,
                        trunk_path, 128, "")
    ELSE subprocess_run(c, "_find_worktrees", <<"worktree", "list", "--porcelain">>,
                        trunk_path, 0,
                        WorktreeBlock(trunk_path, "detached")
                        \o WorktreeBlocks(c.git[RepoOf(trunk_path)].worktrees))

\* the loop of _find_worktrees over the lines of the listing
RECURSIVE worktree_lines(_, _, _)
worktree_lines(lines, tree_branches_dir, d) ==
    IF lines = <<>> THEN <<>>
    ELSE Bind(SubSeq(Head(lines), 10, Len(Head(lines))), LAMBDA worktree_path :
         (IF /\ StartsWith(Head(lines), "worktree ")
             /\ tree_branches_dir \in d
             /\ StartsWith(worktree_path, tree_branches_dir \o "/")
          THEN << [name |-> SubSeq(worktree_path, Len(tree_branches_dir) + 2,
                                   Len(worktree_path)),
                   path |-> worktree_path] >>
          ELSE <<>>)
         \o worktree_lines(Tail(lines), tree_branches_dir, d))

\* _find_worktrees that returns the pairs in the order git lists them
_find_worktrees_unsorted(c, list_fail, repo_path) ==
    IF PathJoin(repo_path, TRUNK_DIR) \notin c.dirs THEN [c EXCEPT !.ret = <<>>]
    ELSE Bind(git_worktree_list(c, list_fail, PathJoin(repo_path, TRUNK_DIR)),
              LAMBDA c1 :
         IF c1.ret.returncode /= 0 THEN [c1 EXCEPT !.ret = <<>>]
         ELSE [c1 EXCEPT !.ret =
                  worktree_lines(Split(c1.ret.stdout, "\n"),
                                 PathJoin(repo_path, TREE_BRANCHES_DIR),
                                 c1.dirs)])

\* _find_worktrees: the (name, path) pairs in c.ret
_find_worktrees(c, list_fail, repo_path) ==
    IF PathJoin(repo_path, TRUNK_DIR) \notin c.dirs THEN [c EXCEPT !.ret = <<>>]
    ELSE Bind(git_worktree_list(c, list_fail, PathJoin(repo_path, TRUNK_DIR)),
              LAMBDA c1 :
         IF c1.ret.returncode /= 0 THEN [c1 EXCEPT !.ret = <<>>]
         ELSE [c1 EXCEPT !.ret =
                  sorted(worktree_lines(Split(c1.ret.stdout, "\n"),
                                        PathJoin(repo_path, TREE_BRANCHES_DIR),
                                        c1.dirs))])

\* get_repo_branches_fast: a BranchInfo for each pair
get_repo_branches_fast(c, list_fail, repo_path) ==
    _find_worktrees(c, list_fail, repo_path)

\* what git diff --stat HEAD prints for ins inserted and dels deleted lines
DiffStat(ins, dels) ==
    IF ins = 0 /\ dels = 0 THEN ""
    ELSE " f | " \o str(ins + dels) \o " +-\n 1 file changed"
         \o (IF ins = 0 THEN ""
             ELSE ", " \o str(ins) \o (IF ins = 1 THEN " insertion(+)" ELSE " insertions(+)"))
         \o (IF dels = 0 THEN ""
             ELSE ", " \o str(dels) \o (IF dels = 1 THEN " deletion(-)" ELSE " deletions(-)"))
         \o "\n"

\* int(m.group(1)) if m else 0
count_or_zero(group) == IF group = None THEN 0 ELSE int(group)

\* get_branch_status, lines 94-102: the counts read from the summary line
diff_counts(stdout) ==
    IF strip(stdout) = "" THEN [insertions |-> 0, deletions |-> 0]
    ELSE Bind(Split(strip(stdout), "\n"), LAMBDA lines :
         Bind(lines[Len(lines)], LAMBDA summary :
         IF FindSub(summary, "insertion", 1) > 0 \/ FindSub(summary, "deletion", 1) > 0
         THEN [insertions |-> count_or_zero(re_search_count(summary, "insertion")),
               deletions |-> count_or_zero(re_search_count(summary, "deletion"))]
         ELSE [insertions |-> 0, deletions |-> 0]))

\* [b.strip().lstrip("* ") for b in lines]
RECURSIVE merged_names(_)
merged_names(lines) ==
    IF lines = <<>> THEN {}
    ELSE {lstrip(strip(Head(lines)), "* ")} \cup merged_names(Tail(lines))

\* the count of git rev-list, a failed call being counted as one commit
rev_list_count_failure_counted(c, o, tree_path, base, branch) ==
    Bind(subprocess_run(c, "get_branch_status",
                        <<"rev-list", "--count",
                          GIT_REMOTE_NAME \o "/" \o base \o ".." \o branch>>,
                        tree_path,
                        IF o.rev_fail THEN 128 ELSE 0,
                        IF o.rev_fail THEN "" ELSE str(o.ahead) \o "\n"),
         LAMBDA c1 :
    [c1 EXCEPT !.ret = IF c1.ret.returncode = 0 THEN int(strip(c1.ret.stdout)) ELSE 1])

\* get_branch_status, lines 70-86: the commits of branch that base lacks
rev_list_count(c, o, tree_path, base, branch) ==
    Bind(subprocess_run(c, "get_branch_status",
                        <<"rev-list", "--count",
                          GIT_REMOTE_NAME \o "/" \o base \o ".." \o branch>>,
                        tree_path,
                        IF o.rev_fail THEN 128 ELSE 0,
                        IF o.rev_fail THEN "" ELSE str(o.ahead) \o "\n"),
         LAMBDA c1 :
    [c1 EXCEPT !.ret = IF c1.ret.returncode = 0 THEN int(strip(c1.ret.stdout)) ELSE 0])

\* get_branch_status once the default branch is known
status_of(c, o, tree_path, branch, has_remote, default_branch) ==
    Bind(subprocess_run(c, "get_branch_status",
                        <<"branch", "--merged", GIT_REMOTE_NAME \o "/" \o default_branch>>,
                        tree_path, 0,
                        IF o.merged THEN "* " \o branch \o "\n" ELSE ""),
         LAMBDA c1 :
    Bind(branch \in merged_names(Split(strip(c1.ret.stdout), "\n")), LAMBDA is_merged :
    Bind(rev_list_count(c1, o, tree_path,
                        IF has_remote THEN branch ELSE default_branch, branch),
         LAMBDA c2 :
    Bind(subprocess_run(c2, "get_branch_status", <<"diff", "--stat", "HEAD">>,
                        tree_path, 0, DiffStat(o.ins, o.dels)),
         LAMBDA c3 :
    Bind(diff_counts(c3.ret.stdout), LAMBDA n :
    [c3 EXCEPT !.ret = BranchStatus(branch, tree_path, has_remote, is_merged, c2.ret,
                                    n.insertions + n.deletions,
                                    n.insertions, n.deletions)])))))

\* get_branch_status: the BranchStatus in c.ret, unless get_default_branch raised.
\* The input o says what git answers:
\*   o.on_remote  ls-remote finds the branch on origin
\*   o.fail       the run_git call that exits non-zero (0: none)
\*   o.merged     the branch is listed by git branch --merged
\*   o.rev_fail   git rev-list exits non-zero
\*   o.ahead      the count git rev-list prints
\*   o.ins, o.dels  the lines git diff --stat reports as inserted and deleted
get_branch_status(c, o, tree_path, trunk_path, branch) ==
    Bind(subprocess_run(c, "get_branch_status",
                        <<"ls-remote", "--heads", GIT_REMOTE_NAME, branch>>,
                        trunk_path, 0,
                        IF o.on_remote
                        THEN "sha\t" \o GIT_REF_HEADS_PREFIX \o branch \o "\n" ELSE ""),
         LAMBDA c1 :
    Bind(strip(c1.ret.stdout) /= "", LAMBDA has_remote :
    Bind(get_default_branch(c1, o, "get_branch_status", trunk_path), LAMBDA c2 :
    IF ~c2.ok THEN c2
    ELSE status_of(c2, o, tree_path, branch, has_remote, c2.ret))))

\* what git can answer while a status is evaluated
StatusOracles ==
    { o \in [on_remote : BOOLEAN, fail : 0..1, merged : BOOLEAN, rev_fail : BOOLEAN,
             ahead : 0..MaxUnpushed, ins : 0..MaxLines, dels : 0..MaxLines] :
        /\ o.rev_fail => o.ahead = 0
        /\ o.fail = 1 => /\ ~o.merged /\ ~o.rev_fail /\ o.ahead = 0
                         /\ o.ins = 0 /\ o.dels = 0 }

(***************************************************************************)
(* The removal of worktrees (src/src/grv/cli.py).                          *)
(***************************************************************************)
\* list.index(x)
IndexOf(items, x) ==
    CHOOSE i \in 1..Len(items) : items[i] = x /\ \A j \in 1..(i - 1) : items[j] /= x

\* Path(*path.parts[:path.parts.index(TREE_BRANCHES_DIR)])
repo_root_of(path) ==
    Bind(Parts(path), LAMBDA parts :
    Join(SubSeq(parts, 1, IndexOf(parts, TREE_BRANCHES_DIR) - 1), "/"))

\* what git can answer to a removal: whether git worktree remove succeeds and
\* whether git branch -d / -D then succeeds
RemovalOracles ==
    { o \in [rm_ok : BOOLEAN, br_ok : BOOLEAN] : ~o.rm_ok => ~o.br_ok }

\* the sequence without the worktree registered at path
Unregister(worktrees, path) == SelectSeq(worktrees, LAMBDA w : w.path /= path)

\* git worktree remove [--force] <path> run in the trunk: the directory and the
\* registration go
git_worktree_remove(c, by, argv, trunk_path, path, rm_ok) ==
    IF /\ rm_ok /\ IsRepo(c.git, trunk_path)
       /\ \E k \in 1..Len(c.git[RepoOf(trunk_path)].worktrees) :
             c.git[RepoOf(trunk_path)].worktrees[k].path = path
    THEN Bind(subprocess_run(c, by, argv, trunk_path, 0, ""), LAMBDA c1 :
         [c1 EXCEPT !.dirs = { p \in @ : ~Under(p, path) },
                    !.git[RepoOf(trunk_path)].worktrees = Unregister(@, path)])
    ELSE subprocess_run(c, by, argv, trunk_path, 128, "")

\* git branch -d / -D <name> run in the trunk: refused for a branch that a
\* worktree has checked out
git_branch_delete(c, by, argv, trunk_path, branch_name, br_ok) ==
    IF /\ br_ok /\ IsRepo(c.git, trunk_path)
       /\ branch_name \in c.git[RepoOf(trunk_path)].branches
       /\ \A k \in 1..Len(c.git[RepoOf(trunk_path)].worktrees) :
             c.git[RepoOf(trunk_path)].worktrees[k].branch /= branch_name
    THEN Bind(subprocess_run(c, by, argv, trunk_path, 0, ""), LAMBDA c1 :
         [c1 EXCEPT !.git[RepoOf(trunk_path)].branches = @ \ {branch_name}])
    ELSE subprocess_run(c, by, argv, trunk_path, 1, "")

\* shutil.rmtree(repo_root): the directory, the trunk and its git data go
rmtree(c, by, repo_root) ==
    [c EXCEPT !.dirs = { p \in @ : ~Under(p, repo_root) },
              !.git = [r \in DOMAIN @ |-> IF r = RepoOf(PathJoin(repo_root, TRUNK_DIR))
                                          THEN NoGit ELSE @[r]],
              !.log = Append(@, Entry(by, <<"rmtree", repo_root>>, None, 0, ""))]

\* the two removal commands in their forced forms, whatever force says
remove_branch_forced(c, by, ro, trunk_path, path, branch_name, force) ==
    Bind(git_worktree_remove(c, by, <<"worktree", "remove", "--force", path>>,
                             trunk_path, path, ro.rm_ok),
         LAMBDA c1 :
    git_branch_delete(c1, by, <<"branch", "-D", branch_name>>,
                      trunk_path, branch_name, ro.br_ok))

\* the two removal commands of _clean_branch (lines 182-187) and of clean
\* (lines 272-276)
remove_branch(c, by, ro, trunk_path, path, branch_name, force) ==
    Bind(git_worktree_remove(c, by,
                             IF force THEN <<"worktree", "remove", "--force", path>>
                             ELSE <<"worktree", "remove", path>>,
                             trunk_path, path, ro.rm_ok),
         LAMBDA c1 :
    git_branch_delete(c1, by,
                      <<"branch", IF force THEN "-D" ELSE "-d", branch_name>>,
                      trunk_path, branch_name, ro.br_ok))

\* the repository is removed when no worktree of it is listed; c.ret says
\* whether it was
remove_if_empty(c, by, list_fail, repo_root) ==
    Bind(get_repo_branches_fast(c, list_fail, repo_root), LAMBDA c1 :
    IF c1.ret = <<>>
    THEN [rmtree(c1, by, repo_root) EXCEPT !.ret = TRUE]
    ELSE [c1 EXCEPT !.ret = FALSE])

\* the lines of a refusal that does not mention the missing remote branch
refusal_without_remote(branch_name, status) ==
    <<"Cannot clean '" \o branch_name \o "' - not safe to remove.">>
    \o (IF status.unpushed_commits > 0
        THEN <<"  - " \o str(status.unpushed_commits) \o " unpushed commit(s)">>
        ELSE <<>>)
    \o (IF status.uncommitted_changes > 0
        THEN <<"  - " \o str(status.uncommitted_changes) \o " uncommitted changes">>
        ELSE <<>>)

\* _clean_branch, lines 167-174: the lines it prints when it refuses
refusal(branch_name, status) ==
    <<"Cannot clean '" \o branch_name \o "' - not safe to remove.">>
    \o (IF ~status.has_remote THEN <<"  - No remote branch found">> ELSE <<>>)
    \o (IF status.unpushed_commits > 0
        THEN <<"  - " \o str(status.unpushed_commits) \o " unpushed commit(s)">>
        ELSE <<>>)
    \o (IF status.uncommitted_changes > 0
        THEN <<"  - " \o str(status.uncommitted_changes) \o " uncommitted changes">>
        ELSE <<>>)

\* the invocations of a log that remove something
IsRemoval(e) ==
    \/ e.argv[1] = "worktree" /\ e.argv[2] = "remove"
    \/ e.argv[1] = "branch" /\ e.argv[2] \in {"-d", "-D"}
    \/ e.argv[1] = "rmtree"

Removals(log) == SelectSeq(log, IsRemoval)

(***************************************************************************)
(* grv list: the menu, and the action chosen for the selected worktree.    *)
(***************************************************************************)
\* the worktrees of a repository, each with the repository's path
repo_branches(repo_path, branches) ==
    [k \in 1..Len(branches) |->
        [repo |-> repo_path, name |-> branches[k].name, path |-> branches[k].path]]

\* the worktrees of one more repository are added to those in c.ret
add_repo_branches(c, list_fail, repo) ==
    Bind(c.ret, LAMBDA found :
    Bind(get_repo_branches_fast(c, list_fail, repo.path), LAMBDA c1 :
    [c1 EXCEPT !.ret = found \o repo_branches(repo.path, @)]))

\* [(r, b) for _, r in repos for b in get_repo_branches_fast(r)]; the listing
\* fails for the repositories named in failing
all_branches(c, failing, repos) ==
    LET collected[k \in 0..Len(repos)] ==
            IF k = 0 THEN [c EXCEPT !.ret = <<>>]
            ELSE add_repo_branches(collected[k - 1], repos[k].name \in failing, repos[k])
    IN collected[Len(repos)]

\* the names of the repositories whose worktrees a command lists
RepoNames(repos) == { repos[k].name : k \in DOMAIN repos }

MenuActions == { "shell", "clean", "delete" }

\* a command ends: the workspace it leaves and the record of what it did
Finish(c, record) ==
    /\ dirs' = c.dirs
    /\ git' = c.git
    /\ last' = [record EXCEPT !.log = c.log, !.removals = Removals(c.log),
                              !.mutated = (c.dirs /= dirs \/ c.git /= git)]

\* _clean_branch once the status is known and the branch is to be removed
clean_branch_removal(c, path, branch_name, force, record) ==
    \E ro \in RemovalOracles, list_fail \in BOOLEAN :
       \E r \in { remove_if_empty(
                     remove_branch(c, "_clean_branch", ro,
                                   PathJoin(repo_root_of(path), TRUNK_DIR),
                                   path, branch_name, force),
                     "_clean_branch", list_fail, repo_root_of(path)) } :
          Finish(r, [record EXCEPT
                       !.status = c.ret, !.safe = is_safe_to_clean(c.ret),
                       !.out = << IF force /\ ~is_safe_to_clean(c.ret)
                                  THEN "Force deleting '" \o branch_name \o "'..."
                                  ELSE "Cleaning '" \o branch_name \o "'..." >>
                               \o (IF r.ret
                                   THEN <<"  Removing empty repo "
                                          \o PathName(repo_root_of(path)) \o "...">>
                                   ELSE <<>>)
                               \o <<"Done.">>,
                       !.ret = TRUE])

_clean_branch(c, path, branch_name, force, record) ==
    \E o \in StatusOracles :
       \E st \in { get_branch_status(c, o, path,
                                     PathJoin(repo_root_of(path), TRUNK_DIR),
                                     branch_name) } :
          IF ~st.ok THEN Finish(st, [record EXCEPT !.exit = 1])
          ELSE IF ~force /\ ~is_safe_to_clean(st.ret)
          THEN Finish(st, [record EXCEPT !.status = st.ret, !.safe = FALSE,
                                         !.out = refusal(branch_name, st.ret),
                                         !.ret = FALSE])
          ELSE clean_branch_removal(st, path, branch_name, force, record)

\* list_cmd whose delete action does not wait for the answer to its prompt
list_action_unconfirmed(c, selected, action) ==
    LET record == [NoCommand EXCEPT !.cmd = "list", !.action = action,
                                    !.tree_path = selected.path,
                                    !.target_branch = selected.name]
    IN IF action = "shell"
       THEN Finish(c, [record EXCEPT !.entered = selected.path])
       ELSE IF action = "clean"
       THEN _clean_branch(c, selected.path, selected.name, FALSE, record)
       ELSE \E answer \in BOOLEAN :
               _clean_branch(c, selected.path, selected.name, TRUE,
                             [record EXCEPT !.prompted = TRUE, !.answer = answer])

\* list_cmd, lines 213-223, for the selected worktree and the key pressed
list_action(c, selected, action) ==
    LET record == [NoCommand EXCEPT !.cmd = "list", !.action = action,
                                    !.tree_path = selected.path,
                                    !.target_branch = selected.name]
    IN IF action = "shell"
       THEN Finish(c, [record EXCEPT !.entered = selected.path])
       ELSE IF action = "clean"
       THEN _clean_branch(c, selected.path, selected.name, FALSE, record)
       ELSE \E answer \in BOOLEAN :
               IF answer
               THEN _clean_branch(c, selected.path, selected.name, TRUE,
                                  [record EXCEPT !.prompted = TRUE, !.answer = TRUE])
               ELSE Finish(c, [record EXCEPT !.prompted = TRUE])

List ==
    /\ last.cmd = "none"
    /\ \E failing \in SUBSET RepoNames(get_all_repos(dirs)) :
       \E c \in { all_branches(Context(dirs, git), failing, get_all_repos(dirs)) } :
          \/ Finish(c, [NoCommand EXCEPT
                          !.cmd = "list",
                          !.out = IF get_all_repos(dirs) = <<>>
                                  THEN <<"No repositories found.">> ELSE <<>>])
          \/ \E k \in 1..Len(c.ret), action \in MenuActions :
                list_action(c, c.ret[k], action)

(***************************************************************************)
(* grv clean [--dry-run] [--force]: the scan, the report and, after the    *)
(* confirmation, the removals.  One step per iteration of its loops.       *)
(***************************************************************************)
\* clean, lines 231-241: the command once the worktrees are collected in c.ret
clean_start(c, repos, dry_run, force) ==
    [NoCommand EXCEPT
       !.cmd = "clean", !.dry_run = dry_run, !.force = force,
       !.log = c.log, !.all_branches = c.ret,
       !.i = IF c.ret = <<>> THEN 0 ELSE 1,
       !.pc = IF c.ret = <<>> THEN "done" ELSE "scan",
       !.out = IF repos = <<>> THEN <<"No repositories to scan.">>
               ELSE IF c.ret = <<>> THEN <<"No branches to scan.">>
               ELSE <<>>]

\* clean, lines 231-241: the repositories and their worktrees are collected
Clean ==
    /\ last.cmd = "none"
    /\ \E dry_run \in BOOLEAN, force \in BOOLEAN,
          failing \in SUBSET RepoNames(get_all_repos(dirs)) :
       \E c \in { all_branches(Context(dirs, git), failing, get_all_repos(dirs)) } :
          /\ last' = clean_start(c, get_all_repos(dirs), dry_run, force)
          /\ UNCHANGED <<dirs, git>>

\* the scan that goes on to the next worktree when a status cannot be evaluated
CleanScanKeepsGoing ==
    /\ last.cmd = "clean" /\ last.pc = "scan"
    /\ \E o \in StatusOracles :
       \E st \in { get_branch_status(Context(dirs, git), o,
                                     last.all_branches[last.i].path,
                                     PathJoin(last.all_branches[last.i].repo, TRUNK_DIR),
                                     last.all_branches[last.i].name) } :
          last' = IF st.ok
                  THEN [last EXCEPT !.pc = "filter", !.log = st.log, !.status = st.ret]
                  ELSE [last EXCEPT !.pc = "filter", !.log = st.log,
                                    !.status = [NoStatus EXCEPT
                                                  !.path = last.all_branches[last.i].path]]
    /\ UNCHANGED <<dirs, git>>

\* clean, line 246: the status of the next worktree is evaluated
CleanScan ==
    /\ last.cmd = "clean" /\ last.pc = "scan"
    /\ \E o \in StatusOracles :
       \E st \in { get_branch_status(Context(dirs, git), o,
                                     last.all_branches[last.i].path,
                                     PathJoin(last.all_branches[last.i].repo, TRUNK_DIR),
                                     last.all_branches[last.i].name) } :
          last' = IF st.ok
                  THEN [last EXCEPT !.pc = "filter", !.log = st.log, !.status = st.ret]
                  ELSE [last EXCEPT !.pc = "done", !.log = st.log, !.exit = 1]
    /\ UNCHANGED <<dirs, git>>

\* to_clean with status appended as the scan does
scan_filter_all(to_clean, status) == Append(to_clean, status)

\* clean, lines 247-248
scan_filter(to_clean, status) ==
    IF is_safe_to_clean(status) THEN Append(to_clean, status) ELSE to_clean

\* clean, lines 247-248: the status is kept or dropped, and the loop goes on
CleanFilter ==
    /\ last.cmd = "clean" /\ last.pc = "filter"
    /\ \E kept \in { scan_filter(last.to_clean, last.status) } :
          last' = [last EXCEPT
                     !.to_clean = kept,
                     !.skipped = IF kept = last.to_clean
                                 THEN Append(@, last.status.path) ELSE @,
                     !.status = NoStatus, !.log = <<>>,
                     !.i = @ + 1,
                     !.pc = IF last.i = Len(last.all_branches) THEN "scanned" ELSE "scan"]
    /\ UNCHANGED <<dirs, git>>

\* after the report the removals start although --dry-run was given with --force
after_report_force_first(dry_run, force, answer) ==
    IF force \/ (~dry_run /\ answer) THEN "remove" ELSE "done"

\* after the report the removals start whatever the answer to the prompt
after_report_unconfirmed(dry_run, force, answer) ==
    IF dry_run THEN "done" ELSE "remove"

\* clean, lines 259-264: where the command goes after the report; with
\* abort=True a declined confirmation raises click.Abort
after_report(dry_run, force, answer) ==
    IF dry_run THEN "done"
    ELSE IF force \/ answer THEN "remove"
    ELSE "done"

\* clean, lines 251-264: the report, and the confirmation unless --dry-run or
\* --force
CleanReport ==
    /\ last.cmd = "clean" /\ last.pc = "scanned"
    /\ \E answer \in BOOLEAN :
       \E asked \in { ~last.dry_run /\ ~last.force } :
          last' = IF last.to_clean = <<>>
                  THEN [last EXCEPT !.pc = "done", !.out = Append(@, "Nothing to clean.")]
                  ELSE [last EXCEPT
                          !.reported = TRUE,
                          !.listed = [k \in 1..Len(last.to_clean) |-> last.to_clean[k].path],
                          !.count = Len(last.to_clean),
                          !.prompted = asked,
                          !.answer = asked /\ answer,
                          !.pc = after_report(last.dry_run, last.force, answer),
                          !.i = 1,
                          !.exit = IF asked /\ ~answer THEN 1 ELSE 0,
                          !.out = @ \o (IF last.dry_run
                                        THEN <<"Would remove " \o str(Len(last.to_clean))
                                               \o " worktree(s).">>
                                        ELSE IF asked /\ ~answer THEN <<"Aborted!">>
                                        ELSE <<>>)]
    /\ UNCHANGED <<dirs, git>>

\* clean, lines 267-277: the next worktree of to_clean is removed
CleanRemove ==
    /\ last.cmd = "clean" /\ last.pc = "remove"
    /\ \E ro \in RemovalOracles :
       \E b \in { last.to_clean[last.i] } :
       \E r \in { remove_branch(Context(dirs, git), "clean", ro,
                                PathJoin(repo_root_of(b.path), TRUNK_DIR),
                                b.path, b.name, FALSE) } :
          /\ dirs' = r.dirs
          /\ git' = r.git
          /\ last' = [last EXCEPT
                        !.affected = @ \cup {repo_root_of(b.path)},
                        !.log = r.log, !.removals = @ \o Removals(r.log),
                        !.mutated = @ \/ r.dirs /= dirs \/ r.git /= git,
                        !.i = @ + 1,
                        !.pc = IF last.i = Len(last.to_clean) THEN "sweep" ELSE "remove"]

\* clean, lines 279-293: an affected repository without worktrees is removed
CleanSweep ==
    /\ last.cmd = "clean" /\ last.pc = "sweep"
    /\ \E repo_root \in last.affected, list_fail \in BOOLEAN :
       \E r \in { remove_if_empty(Context(dirs, git), "clean", list_fail, repo_root) } :
          /\ dirs' = r.dirs
          /\ git' = r.git
          /\ last' = [last EXCEPT
                        !.affected = @ \ {repo_root},
                        !.repos_removed = IF r.ret THEN @ + 1 ELSE @,
                        !.log = r.log, !.removals = @ \o Removals(r.log),
                        !.mutated = @ \/ r.dirs /= dirs \/ r.git /= git,
                        !.pc = IF last.affected = {repo_root} THEN "done" ELSE "sweep"]

(***************************************************************************)
(* The workspaces the removal commands start from: what sequences of grv   *)
(* shell leave.                                                            *)
(***************************************************************************)
\* git answers without failure, and the branch is not on the remote
GitWorks == [fail |-> 0, on_remote |-> FALSE, remnant |-> FALSE, advanced |-> FALSE]

\* git clone fails and leaves the trunk's directory
CloneBreaks == [fail |-> 1, on_remote |-> FALSE, remnant |-> TRUE, advanced |-> FALSE]

\* the shell commands that were run, in this order
ShellHistory ==
    << [repo |-> "git@h:u/a.git", branch |-> None, o |-> GitWorks],
       [repo |-> "git@h:u/a.git", branch |-> "fix/x", o |-> GitWorks],
       [repo |-> "https://h/u/b/", branch |-> "feat", o |-> GitWorks] >>

\* the workspace after the shell commands of a history
RECURSIVE AfterShells(_, _)
AfterShells(c, history) ==
    IF history = <<>> THEN c
    ELSE Bind(_prepare_remote_worktree(c, Head(history).o, Head(history).repo,
                                       Head(history).branch, None).ctx,
              LAMBDA c1 : AfterShells(Context(c1.dirs, c1.git), Tail(history)))

\* the commands of a history at the positions of keep
Kept(history, keep) ==
    SelectSeq([k \in 1..Len(history) |-> [at |-> k, run |-> history[k]]],
              LAMBDA e : e.at \in keep)

Histories ==
    { [k \in 1..Len(Kept(ShellHistory, keep)) |-> Kept(ShellHistory, keep)[k].run] :
        keep \in SUBSET (1..Len(ShellHistory)) }
    \cup { << ShellHistory[1],
              [repo |-> "https://h/u/b/", branch |-> "feat", o |-> CloneBreaks] >> }

InitClean ==
    /\ \E history \in Histories :
       \E c \in { AfterShells(Context({}, [r \in RepoIds |-> NoGit]), history) } :
          dirs = c.dirs /\ git = c.git
    /\ last = NoCommand

NextClean ==
    \/ List
    \/ Clean \/ CleanScan \/ CleanFilter \/ CleanReport \/ CleanRemove \/ CleanSweep
    \/ Exit

SpecClean == InitClean /\ [][NextClean]_vars

(***************************************************************************)
(* The worktree listing on its own: get_repo_branches_fast applied to a    *)
(* repository directory of a workspace that shell commands, failed ones    *)
(* included, have left.                                                    *)
(***************************************************************************)
\* get_repo_branches_fast(repo_path): the listing is kept in last.ret, the
\* repository directory in last.repo and the git invocation in last.log
GetRepoBranchesFast ==
    /\ last.cmd = "none"
    /\ \E repo_id \in RepoIds, list_fail \in BOOLEAN :
       \E c \in { get_repo_branches_fast(Context(dirs, git), list_fail,
                                         RepoPath(repo_id)) } :
          last' = [NoCommand EXCEPT !.cmd = "get_repo_branches_fast",
                                    !.repo = RepoPath(repo_id),
                                    !.log = c.log, !.ret = c.ret]
    /\ UNCHANGED <<dirs, git>>

NextListing == Shell \/ GetRepoBranchesFast \/ Exit

SpecListing == Init /\ [][NextListing]_vars

(***************************************************************************)
(* The repository identity on its own: extract_repo_id applied to two      *)
(* spellings of the URL of one remote.                                     *)
(***************************************************************************)
\* the remotes: a host and the path of the repository on it
Remotes ==
    { [host |-> "github.com", path |-> "user/repo"], [host |-> "h", path |-> "u/a"] }

\* the URLs that name a remote: scp-like SSH, ssh://, https:// and http://,
\* each with or without the .git suffix and a trailing slash
Spellings(remote) ==
    { prefix \o remote.path \o suffix \o slash :
        prefix \in { "git@" \o remote.host \o ":", "ssh://git@" \o remote.host \o "/",
                     "https://" \o remote.host \o "/", "http://" \o remote.host \o "/" },
        suffix \in { "", ".git" }, slash \in { "", "/" } }

\* arguments that have none of the three shapes, or only the start of one
Malformed ==
    { "", "repo", "some/local/repo.git", "/srv/git/repo/", "git@github.com", "git@",
      "git@h/u/a.git", "http://", "https:u/a", "h:u/a.git" }

InitIdentity ==
    /\ dirs = {}
    /\ git = [r \in RepoIds |-> NoGit]
    /\ \/ \E remote \in Remotes : \E u1 \in Spellings(remote), u2 \in Spellings(remote) :
             last = [NoCommand EXCEPT !.cmd = "urls", !.repo = <<u1, u2>>]
       \/ \E u \in Malformed :
             last = [NoCommand EXCEPT !.cmd = "urls", !.repo = <<u, u>>]

\* extract_repo_id is applied to both URLs
ExtractRepoIds ==
    /\ last.cmd = "urls"
    /\ last' = [last EXCEPT !.cmd = "extract_repo_id",
                            !.ret = <<extract_repo_id(last.repo[1]),
                                      extract_repo_id(last.repo[2])>>]
    /\ UNCHANGED <<dirs, git>>

NextIdentity == ExtractRepoIds

SpecIdentity == InitIdentity /\ [][NextIdentity]_vars

(***************************************************************************)
(* The round trip of section 8: clean --dry-run, then clean --force in a   *)
(* separate run on the workspace the dry run left.                         *)
(***************************************************************************)
\* clean --force is started after a clean --dry-run that reported worktrees,
\* against the same fixture: the listing answers as before; prior keeps the
\* paths the dry run reported
CleanAgain ==
    /\ last.cmd = "clean" /\ last.dry_run /\ ~last.force /\ last.pc = "done"
    /\ last.reported /\ ~last.again
    /\ \E c \in { all_branches(Context(dirs, git), {}, get_all_repos(dirs)) } :
          /\ last' = [clean_start(c, get_all_repos(dirs), FALSE, TRUE) EXCEPT
                        !.again = TRUE, !.prior = last.listed]
          /\ UNCHANGED <<dirs, git>>

NextRoundTrip ==
    \/ Clean \/ CleanScan \/ CleanFilter \/ CleanReport \/ CleanRemove \/ CleanSweep
    \/ CleanAgain

\* the workspace of the round trip: one repository with two worktrees, one
\* with a single worktree
InitRoundTrip ==
    /\ \E c \in { AfterShells(Context({}, [r \in RepoIds |-> NoGit]), ShellHistory) } :
          dirs = c.dirs /\ git = c.git
    /\ last = NoCommand

SpecRoundTrip == InitRoundTrip /\ [][NextRoundTrip]_vars

(***************************************************************************)
(* The safe-to-clean predicate on its own: any BranchStatus is built, and  *)
(* the property is read from it.                                           *)
(***************************************************************************)
InitStatus ==
    /\ dirs = {}
    /\ git = [r \in RepoIds |-> NoGit]
    /\ last \in { [NoCommand EXCEPT !.cmd = "BranchStatus", !.status = st] :
                    st \in BranchStatuses }

ReadIsSafeToClean ==
    /\ last.cmd = "BranchStatus"
    /\ last' = [last EXCEPT !.cmd = "is_safe_to_clean",
                            !.safe = is_safe_to_clean(last.status)]
    /\ UNCHANGED <<dirs, git>>

NextStatus == ReadIsSafeToClean

SpecStatus == InitStatus /\ [][NextStatus]_vars

(***************************************************************************)
(* Claims about the safe-to-clean predicate.                               *)
(***************************************************************************)
PredicateRead == last.cmd = "is_safe_to_clean"

\* C1: a branch is safe to clean if and only if (has_remote and no unpushed
\* commits and no uncommitted changes) or (is_merged and no uncommitted
\* changes); a merged branch without remote and without changes is safe.
C1_SafeIffRemoteCleanOrMergedClean ==
    PredicateRead =>
        (last.safe <=>
            \/ /\ last.status.has_remote
               /\ last.status.unpushed_commits = 0
               /\ last.status.uncommitted_changes = 0
            \/ /\ last.status.is_merged
               /\ last.status.uncommitted_changes = 0)

\* C2: a status with uncommitted changes is never safe to clean, whatever
\* has_remote, is_merged and unpushed_commits are.
C2_UncommittedNeverSafe ==
    (PredicateRead /\ last.status.uncommitted_changes > 0) => ~last.safe

C2_Witness ==
    /\ PredicateRead
    /\ last.status.uncommitted_changes > 0
    /\ last.status.is_merged /\ last.status.has_remote
    /\ last.status.unpushed_commits = 0
    /\ ~last.safe

\* C3: a status with no remote branch and not merged is never safe to clean,
\* whatever unpushed_commits and uncommitted_changes are.
C3_NoRemoteNotMergedNeverSafe ==
    (PredicateRead /\ ~last.status.has_remote /\ ~last.status.is_merged)
        => ~last.safe

C3_Witness ==
    /\ PredicateRead
    /\ ~last.status.has_remote /\ ~last.status.is_merged
    /\ last.status.unpushed_commits = 0
    /\ last.status.uncommitted_changes = 0
    /\ ~last.safe

\* C4: a status with a remote branch, no unpushed commits and no uncommitted
\* changes is always safe to clean, whatever is_merged is.
C4_RemoteCleanAlwaysSafe ==
    (/\ PredicateRead
     /\ last.status.has_remote
     /\ last.status.unpushed_commits = 0
     /\ last.status.uncommitted_changes = 0) => last.safe

C4_Witness ==
    /\ PredicateRead
    /\ last.status.has_remote /\ ~last.status.is_merged
    /\ last.status.unpushed_commits = 0
    /\ last.status.uncommitted_changes = 0
    /\ last.safe

(***************************************************************************)
(* Claims about ensure_worktree.                                           *)
(***************************************************************************)
\* the invocations of a log that one function issued
IssuedBy(log, by) == SelectSeq(log, LAMBDA e : e.by = by)

\* the git worktree ... invocations of a log
WorktreeCalls(log) == SelectSeq(log, LAMBDA e : e.argv[1] = "worktree")

\* C9: ensure_worktree called when the worktree's path exists issues no git
\* invocation and changes nothing; so right after a successful call, a second
\* call with the same inputs issues no git invocation, whatever git would answer.
C9_ExistingWorktreeTouchesNoGit ==
    /\ (last.cmd = "shell" /\ last.wt_called /\ last.tree_existed)
          => /\ IssuedBy(last.log, "ensure_worktree") = <<>>
             /\ ~last.wt_changed
    /\ (last.cmd = "shell" /\ last.wt_called /\ last.exit = 0)
          => \A o \in Oracles :
                LET again == ensure_worktree(Context(dirs, git), o,
                                 TrunkPath(extract_repo_id(last.repo)), last.tree_path,
                                 last.target_branch, last.from_branch)
                IN again.log = <<>> /\ again.dirs = dirs /\ again.git = git

C9_Witness ==
    /\ last.cmd = "shell" /\ last.wt_called /\ last.tree_existed
    /\ last.exit = 0
    /\ last.log /= <<>>
    /\ IssuedBy(last.log, "ensure_worktree") = <<>>

\* the branch was found neither locally (show-ref) nor on the remote (ls-remote)
BranchIsNew(log) ==
    /\ \E i \in 1..Len(log) :
          /\ log[i].by = "ensure_worktree" /\ log[i].argv[1] = "show-ref"
          /\ log[i].rc /= 0
    /\ \E i \in 1..Len(log) :
          /\ log[i].by = "ensure_worktree" /\ log[i].argv[1] = "ls-remote"
          /\ log[i].rc = 0 /\ log[i].stdout = ""

\* C10: for a branch that exists neither locally nor on the remote,
\* ensure_worktree issues exactly one "worktree add -b <branch> <path> <start>",
\* with <start> = origin/<from_branch> when --from was given and
\* origin/<default branch> otherwise.
C10_NewBranchStartsAtRemoteBase ==
    (/\ last.cmd = "shell"
     /\ BranchIsNew(last.log)
     /\ WorktreeCalls(last.log) /= <<>>)
        => LET base == IF last.from_branch /= None THEN last.from_branch
                       ELSE RemoteHead(last.repo)
           IN WorktreeCalls(last.log)[1].argv =
                 <<"worktree", "add", "-b", last.target_branch, last.tree_path,
                   "origin/" \o base>>
              /\ Len(WorktreeCalls(last.log)) = 1

C10_Witness ==
    /\ last.cmd = "shell" /\ last.exit = 0
    /\ BranchIsNew(last.log)
    /\ last.from_branch = None
    /\ RemoteHead(last.repo) = "master"
    /\ Len(WorktreeCalls(last.log)) = 1
    /\ WorktreeCalls(last.log)[1].argv[6] = "origin/master"

C10_WitnessFrom ==
    /\ last.cmd = "shell" /\ last.exit = 0
    /\ BranchIsNew(last.log)
    /\ last.from_branch = "develop"
    /\ WorktreeCalls(last.log)[1].argv[6] = "origin/develop"

(***************************************************************************)
(* Claims about the removal of worktrees.                                  *)
(***************************************************************************)
\* the elements of a sequence
Range(items) == { items[k] : k \in 1..Len(items) }

\* the paths of the statuses of a sequence
Paths(statuses) == [k \in 1..Len(statuses) |-> statuses[k].path]

\* the worktree paths and branch names the removal commands of a log name
RemovedPaths(removals) ==
    { e.argv[Len(e.argv)] : e \in { r \in Range(removals) : r.argv[1] = "worktree" } }

RemovedBranches(removals) ==
    { e.argv[Len(e.argv)] : e \in { r \in Range(removals) : r.argv[1] = "branch" } }

\* C5: in bulk clean, with or without --dry-run, a scanned worktree is kept for
\* removal exactly when its evaluated status satisfies is_safe_to_clean; the
\* worktrees listed and counted are those kept, and no git worktree remove or
\* git branch -d is issued for a worktree that was not kept.
C5_CleanListsExactlyTheSafe ==
    /\ [](last.cmd = "clean" =>
            /\ \A st \in Range(last.to_clean) : is_safe_to_clean(st)
            /\ Range(Paths(last.to_clean)) \cap Range(last.skipped) = {}
            /\ last.pc \in {"scan", "scanned"} =>
                  Range(Paths(last.to_clean)) \cup Range(last.skipped)
                     = { last.all_branches[k].path : k \in 1..(last.i - 1) }
            /\ last.reported =>
                  /\ last.listed = Paths(last.to_clean)
                  /\ last.count = Len(last.to_clean)
            /\ RemovedPaths(last.removals) \subseteq Range(Paths(last.to_clean))
            /\ RemovedBranches(last.removals)
                  \subseteq { st.name : st \in Range(last.to_clean) })
    /\ [][(last.cmd = "clean" /\ last.pc = "filter") =>
             IF is_safe_to_clean(last.status)
             THEN /\ last'.to_clean = Append(last.to_clean, last.status)
                  /\ last'.skipped = last.skipped
             ELSE /\ last'.to_clean = last.to_clean
                  /\ last'.skipped = Append(last.skipped, last.status.path)]_vars

C5_Witness ==
    /\ last.cmd = "clean" /\ last.pc = "done" /\ last.exit = 0
    /\ last.to_clean /= <<>> /\ last.skipped /= <<>>
    /\ last.reported /\ last.count = Len(last.to_clean)
    /\ RemovedPaths(last.removals) = Range(Paths(last.to_clean))

\* the refusal of a targeted clean: the list command's CLEAN action found the
\* status of the selected worktree not safe to clean
Refused ==
    /\ last.cmd = "list" /\ last.action = "clean"
    /\ last.status /= NoStatus
    /\ ~is_safe_to_clean(last.status)

\* C6: a targeted clean without force of a worktree that is not safe to clean
\* removes nothing (no worktree remove, no branch deletion, no rmtree), returns
\* False and prints "No remote branch found" iff has_remote is false,
\* "N unpushed commit(s)" iff unpushed_commits = N > 0 and
\* "N uncommitted changes" iff uncommitted_changes = N > 0.
C6_UnsafeTargetedCleanRefuses ==
    Refused =>
       /\ last.removals = <<>>
       /\ ~last.mutated
       /\ last.ret = FALSE
       /\ ("  - No remote branch found" \in Range(last.out)) <=> ~last.status.has_remote
       /\ \A n \in 0..(MaxUnpushed + 1) :
             ("  - " \o str(n) \o " unpushed commit(s)" \in Range(last.out))
                <=> (last.status.unpushed_commits = n /\ n > 0)
       /\ \A n \in 0..(2 * MaxLines + 1) :
             ("  - " \o str(n) \o " uncommitted changes" \in Range(last.out))
                <=> (last.status.uncommitted_changes = n /\ n > 0)

C6_Witness ==
    /\ Refused
    /\ last.status.has_remote
    /\ last.status.unpushed_commits = 2
    /\ last.status.uncommitted_changes = 0
    /\ last.out = <<"Cannot clean 'fix/x' - not safe to remove.",
                    "  - 2 unpushed commit(s)">>
    /\ last.ret = FALSE

\* C7: in bulk clean without --force and without --dry-run, declining the
\* confirmation ends the command with a non-zero exit status, and no worktree
\* remove, no branch deletion and no rmtree has happened: the workspace is as
\* it was before the command.
C7_DeclinedCleanChangesNothing ==
    (/\ last.cmd = "clean" /\ ~last.dry_run /\ ~last.force
     /\ last.prompted /\ ~last.answer)
       => /\ last.pc = "done"
          /\ last.exit /= 0
          /\ last.removals = <<>>
          /\ ~last.mutated

C7_Witness ==
    /\ last.cmd = "clean" /\ ~last.dry_run /\ ~last.force
    /\ last.prompted /\ ~last.answer
    /\ last.to_clean /= <<>>
    /\ last.exit = 1 /\ last.pc = "done"

\* C8: bulk clean with --dry-run, with or without --force, scans and filters
\* every worktree, never asks for confirmation and never issues a worktree
\* remove, a branch deletion or an rmtree: the workspace stays as it was.
C8_DryRunChangesNothing ==
    (last.cmd = "clean" /\ last.dry_run)
       => /\ ~last.prompted
          /\ last.pc \notin {"remove", "sweep"}
          /\ last.removals = <<>>
          /\ ~last.mutated
          /\ (last.pc = "done" /\ last.exit = 0 /\ last.all_branches /= <<>>)
                => Len(last.to_clean) + Len(last.skipped) = Len(last.all_branches)

C8_Witness ==
    /\ last.cmd = "clean" /\ last.dry_run /\ last.force
    /\ last.pc = "done"
    /\ last.to_clean /= <<>>
    /\ last.reported /\ last.count = Len(last.to_clean)
    /\ "Would remove 1 worktree(s)." \in Range(last.out)

(***************************************************************************)
(* Claims about the copies of ensure_worktree.                             *)
(***************************************************************************)
\* the "git worktree add -b <branch> <path> <start>" invocations of a log:
\* the ones that create a branch that is neither local nor on the remote
NewBranchAdds(log) ==
    SelectSeq(log, LAMBDA e : /\ Len(e.argv) = 6
                              /\ e.argv[1] = "worktree" /\ e.argv[2] = "add"
                              /\ e.argv[3] = "-b")

\* C11: whichever copy of ensure_worktree runs (grv.git, gtwsp.git, gtwsp.cli),
\* the start point of a brand-new branch is the remote-tracking ref
\* origin/<base>, never a local branch name.
C11_EveryVariantStartsAtRemoteRef ==
    \A k \in 1..Len(NewBranchAdds(last.log)) :
       StartsWith(NewBranchAdds(last.log)[k].argv[6], "origin/")

\* gtwsp's shell has created a new branch from the local default branch
C11_GtwspStartsAtLocalBranch ==
    /\ last.cmd = "gtwsp.shell" /\ last.exit = 0
    /\ Len(NewBranchAdds(last.log)) = 1
    /\ NewBranchAdds(last.log)[1].argv[6] = RemoteHead(last.repo)

(***************************************************************************)
(* Claims about forced deletion and the removal of emptied repositories.   *)
(***************************************************************************)
\* the git invocations among the removals of a command, in order
GitRemovals(removals) == SelectSeq(removals, LAMBDA e : e.argv[1] /= "rmtree")

\* the invocation uses a forced form: worktree remove --force or branch -D
IsForced(e) == \E k \in 1..Len(e.argv) : e.argv[k] \in {"--force", "-D"}

\* C12: the removals of a bulk clean are, for each worktree of to_clean in
\* order, "git worktree remove <path>" then "git branch -d <name>", both run
\* in the trunk of the worktree's repository and neither forced; a forced form
\* is issued only by the list's delete action after its confirmation
\* (_clean_branch with force=True).
C12_BulkCleanNeverForces ==
    /\ last.cmd = "clean" =>
          LET rm == GitRemovals(last.removals)
          IN /\ Len(rm) % 2 = 0
             /\ Len(rm) <= 2 * Len(last.to_clean)
             /\ \A j \in 1..Len(rm) :
                   LET b == last.to_clean[(j + 1) \div 2]
                   IN /\ rm[j].cwd = PathJoin(repo_root_of(b.path), "trunk")
                      /\ rm[j].argv = IF j % 2 = 1
                                      THEN <<"worktree", "remove", b.path>>
                                      ELSE <<"branch", "-d", b.name>>
    /\ \A k \in 1..Len(last.log) :
          IsForced(last.log[k]) =>
             last.cmd = "list" /\ last.action = "delete" /\ last.answer

\* clean --force has removed two worktrees, none of them by a forced form
C12_Witness ==
    /\ last.cmd = "clean" /\ last.force /\ last.pc = "done" /\ last.exit = 0
    /\ Len(GitRemovals(last.removals)) = 4
    /\ \A k \in 1..4 : ~IsForced(GitRemovals(last.removals)[k])

\* the list's delete action has issued both forced forms
C12_WitnessForced ==
    /\ last.cmd = "list" /\ last.action = "delete" /\ last.answer
    /\ Len(GitRemovals(last.removals)) = 2
    /\ \A k \in 1..2 : IsForced(GitRemovals(last.removals)[k])

\* C13: in grv list, the delete action removes by the forced forms, and only
\* after the prompt was answered yes; when the answer is no, no status is
\* evaluated, nothing is removed and the workspace is unchanged; the clean
\* action never issues a forced form.
C13_DeleteNeedsConfirmation ==
    (last.cmd = "list" /\ last.action \in {"clean", "delete"}) =>
       /\ last.action = "delete" => last.prompted
       /\ (last.action = "delete" /\ ~last.answer) =>
             /\ IssuedBy(last.log, "get_branch_status") = <<>>
             /\ IssuedBy(last.log, "_clean_branch") = <<>>
             /\ last.removals = <<>>
             /\ ~last.mutated
             /\ last.status = NoStatus
       /\ (last.action = "delete" /\ last.answer) =>
             \A k \in 1..Len(GitRemovals(last.removals)) :
                IsForced(GitRemovals(last.removals)[k])
       /\ last.action = "clean" =>
             /\ ~last.prompted
             /\ \A k \in 1..Len(last.log) : ~IsForced(last.log[k])

\* the delete action was chosen for a worktree and the prompt declined
C13_Witness ==
    /\ last.cmd = "list" /\ last.action = "delete"
    /\ last.prompted /\ ~last.answer
    /\ last.tree_path \in dirs
    /\ last.log /= <<>>

\* the delete action was confirmed and removed an unsafe worktree by force
C13_WitnessConfirmed ==
    /\ last.cmd = "list" /\ last.action = "delete" /\ last.answer
    /\ ~last.safe /\ last.status.uncommitted_changes > 0
    /\ last.tree_path \notin dirs
    /\ Len(GitRemovals(last.removals)) = 2

\* the paths of the worktrees git has registered for the repository at repo_root
WorktreesOf(g, repo_root) ==
    LET repo == RepoOf(PathJoin(repo_root, "trunk"))
    IN IF repo \in DOMAIN g
       THEN { g[repo].worktrees[k].path : k \in 1..Len(g[repo].worktrees) }
       ELSE {}

\* the worktrees that the git worktree remove invocations of a log removed
RemovedBy(log) ==
    { log[k].argv[Len(log[k].argv)] :
        k \in { j \in 1..Len(log) : /\ log[j].argv[1] = "worktree"
                                    /\ log[j].argv[2] = "remove"
                                    /\ log[j].rc = 0 } }

\* C14: when a bulk clean, after its removals, comes to an affected
\* repository, and when a targeted clean has removed its worktree, the
\* repository directory is deleted if no worktree of the repository remains
\* and is left in place if at least one remains.
C14_RepoDeletedIffNoWorktreeRemains ==
    [][ /\ (/\ last.cmd = "clean" /\ last.pc = "sweep"
            /\ last'.cmd = "clean" /\ last'.affected /= last.affected)
           => \A repo_root \in last.affected \ last'.affected :
                 (repo_root \notin dirs') <=> (WorktreesOf(git, repo_root) = {})
        /\ (/\ last.cmd = "none" /\ last'.cmd = "list"
            /\ last'.action \in {"clean", "delete"} /\ last'.removals /= <<>>)
           => LET repo_root == repo_root_of(last'.tree_path)
              IN (repo_root \notin dirs')
                    <=> (WorktreesOf(git, repo_root) \ RemovedBy(last'.log) = {})
      ]_vars

\* a bulk clean has deleted a repository in which a worktree it had skipped
\* was still registered
C14_DeletedWithWorktreeLeft ==
    /\ last.cmd = "clean" /\ last.pc = "done" /\ last.repos_removed = 1
    /\ \E k \in 1..Len(last.skipped) :
          /\ last.skipped[k] \notin dirs
          /\ \A j \in 1..Len(last.removals) :
                last.removals[j].argv /= <<"worktree", "remove", last.skipped[k]>>

(***************************************************************************)
(* Claims about the round trip between clean --dry-run and clean --force.  *)
(***************************************************************************)
\* the paths get_repo_branches_fast lists for the repository at repo_root
FastListing(repo_root) ==
    LET listed == get_repo_branches_fast(Context(dirs, git), FALSE, repo_root).ret
    IN { listed[k].path : k \in 1..Len(listed) }

\* the clean --force that followed a clean --dry-run has ended, and its scan
\* found cleanable the worktrees the dry run had reported
RoundTripDone ==
    /\ last.cmd = "clean" /\ last.again /\ last.pc = "done" /\ last.exit = 0
    /\ Paths(last.to_clean) = last.prior

\* C15: after clean --dry-run followed by clean --force against the same
\* fixture, no worktree the dry run reported is in the fast listing of its
\* repository, and the repository directory of a reported worktree is gone
\* exactly when the repository held no other worktree than the reported ones.
C15_DryRunThenForceRoundTrip ==
    RoundTripDone =>
       \A k \in 1..Len(last.prior) :
          LET repo_root == repo_root_of(last.prior[k])
              held == { last.all_branches[j].path :
                          j \in { i \in 1..Len(last.all_branches) :
                                    last.all_branches[i].repo = repo_root } }
          IN /\ last.prior[k] \notin FastListing(repo_root)
             /\ (repo_root \notin dirs) <=> (held \subseteq Range(last.prior))

\* the round trip has ended and a worktree the dry run reported is still
\* listed: its git worktree remove had exited non-zero
C15_ReportedStillListed ==
    /\ RoundTripDone
    /\ \E k \in 1..Len(last.prior) :
          /\ last.prior[k] \in FastListing(repo_root_of(last.prior[k]))
          /\ last.prior[k] \in dirs

(***************************************************************************)
(* Claims about the trunk (ensure_base_repo).                              *)
(***************************************************************************)
\* C16: in every workspace state a repository directory repos/<id> exists
\* exactly when its trunk subdirectory exists.
C16_RepoDirIffTrunk ==
    \A repo_id \in RepoIds :
       (RepoPath(repo_id) \in dirs) <=> (TrunkPath(repo_id) \in dirs)

\* a shell command has failed in git clone and left the repository directory
\* without a trunk
C16_RepoDirWithoutTrunk ==
    /\ last.cmd = "shell" /\ last.exit = 1
    /\ Len(last.log) = 1 /\ last.log[1].argv[1] = "clone" /\ last.log[1].rc = 1
    /\ RepoPath(extract_repo_id(last.repo)) \in dirs
    /\ TrunkPath(extract_repo_id(last.repo)) \notin dirs

\* the invocations ensure_base_repo issued in the command that has just run
BaseRepoCalls == IssuedBy(last'.log, "ensure_base_repo")

\* C17: ensure_base_repo starts with "clone --filter=blob:none <url> <trunk>"
\* exactly when the trunk path did not exist at the call and with
\* "fetch --all --prune" in the trunk exactly when it did, and issues no other
\* clone or fetch; when that succeeds it resolves refs/remotes/origin/HEAD and
\* then runs "checkout --detach origin/<default>"; after a call in which all
\* three succeed the trunk exists with HEAD detached at origin/<default>.
C17_CloneOrFetchThenDetach ==
    [][ (last.cmd = "none" /\ last'.cmd = "shell") =>
           LET trunk == TrunkPath(extract_repo_id(last'.repo))
               calls == BaseRepoCalls
           IN /\ Len(calls) \in 1..3
              /\ calls[1].argv = IF trunk \in dirs
                                 THEN <<"fetch", "--all", "--prune">>
                                 ELSE <<"clone", "--filter=blob:none", last'.repo, trunk>>
              /\ calls[1].cwd = IF trunk \in dirs THEN trunk ELSE None
              /\ \A k \in 2..Len(last'.log) : last'.log[k].argv[1] \notin {"clone", "fetch"}
              /\ Len(calls) >= 2 <=> calls[1].rc = 0
              /\ Len(calls) >= 2 =>
                    /\ calls[2].argv = <<"symbolic-ref", "refs/remotes/origin/HEAD">>
                    /\ calls[2].cwd = trunk
                    /\ Len(calls) = 3 <=> calls[2].rc = 0
              /\ Len(calls) = 3 =>
                    /\ calls[3].argv = <<"checkout", "--detach",
                                         "origin/" \o RemoteHead(last'.repo)>>
                    /\ calls[3].cwd = trunk
                    /\ calls[3].rc = 0 =>
                          /\ trunk \in dirs'
                          /\ git'[extract_repo_id(last'.repo)].head
                                = "origin/" \o RemoteHead(last'.repo)
                          /\ ~git'[extract_repo_id(last'.repo)].behind
      ]_vars

\* a shell command on an existing trunk has fetched and detached the trunk
C17_Witness ==
    /\ last.cmd = "shell" /\ last.exit = 0
    /\ IssuedBy(last.log, "ensure_base_repo")[1].argv = <<"fetch", "--all", "--prune">>
    /\ Len(IssuedBy(last.log, "ensure_base_repo")) = 3
    /\ git[extract_repo_id(last.repo)].head = "origin/" \o RemoteHead(last.repo)

\* a shell command in a workspace without the trunk has cloned and detached it
C17_WitnessClone ==
    /\ last.cmd = "shell" /\ last.exit = 0
    /\ IssuedBy(last.log, "ensure_base_repo")[1].argv[1] = "clone"
    /\ Len(IssuedBy(last.log, "ensure_base_repo")) = 3
    /\ git[extract_repo_id(last.repo)].head = "origin/" \o RemoteHead(last.repo)

\* the git commands whose failure is fatal to trunk setup and worktree creation
FatalCommands == {"clone", "fetch", "symbolic-ref", "checkout", "ls-remote", "worktree"}

\* C18: in a shell command, a clone, fetch, symbolic-ref, checkout, ls-remote
\* or worktree add that exits non-zero is the last git invocation of the
\* command: nothing is issued after it, neither a retry nor a worktree add from
\* another base, and the command ends in failure without entering a worktree.
C18_GitFailureAbortsCommand ==
    last.cmd = "shell" =>
       /\ \A k \in 1..Len(last.log) :
             (last.log[k].argv[1] \in FatalCommands /\ last.log[k].rc /= 0)
                => /\ k = Len(last.log)
                   /\ last.exit = 1
                   /\ last.entered = None
       /\ last.exit = 1 =>
             /\ last.log /= <<>>
             /\ last.log[Len(last.log)].rc /= 0
             /\ last.log[Len(last.log)].argv[1] \in FatalCommands

\* a shell command whose worktree add for a new branch failed, after the
\* trunk setup, show-ref, ls-remote and symbolic-ref had answered
C18_Witness ==
    /\ last.cmd = "shell" /\ last.exit = 1
    /\ Len(last.log) = 7
    /\ last.log[7].argv[1] = "worktree" /\ last.log[7].rc /= 0
    /\ last.log[7].by = "ensure_worktree"
    /\ last.tree_path \notin dirs

\* a shell command whose fetch failed
C18_WitnessFetch ==
    /\ last.cmd = "shell" /\ last.exit = 1
    /\ Len(last.log) = 1 /\ last.log[1].argv[1] = "fetch"
    /\ ~last.mutated

\* the trunk's HEAD is detached at origin/<default> as last fetched
DetachedAtLatest(g, repo_id) ==
    /\ g[repo_id].cloned
    /\ g[repo_id].head = "origin/" \o g[repo_id].default
    /\ ~g[repo_id].behind

\* in the command that has just run, ensure_base_repo fetched and its
\* checkout --detach then failed
FetchedNotDetached ==
    /\ Len(BaseRepoCalls) = 3
    /\ BaseRepoCalls[1].argv[1] = "fetch" /\ BaseRepoCalls[1].rc = 0
    /\ BaseRepoCalls[3].argv[1] = "checkout" /\ BaseRepoCalls[3].rc /= 0

\* a shell command for the repository has run without a failing git invocation
ShellSucceeded(repo) ==
    last.cmd = "none" /\ last'.cmd = "shell" /\ last'.repo = repo /\ last'.exit = 0

C20_SameRemoteSameIdentity ==
    last.cmd = "extract_repo_id" =>
       /\ last.ret[1] = last.ret[2]
       /\ last.repo[1] \in { "git@github.com:user/repo.git",
                             "https://github.com/user/repo.git",
                             "https://github.com/user/repo/" }
             => last.ret[1] = "github_com_user_repo"

\* an ssh:// URL and the scp-like URL of the same remote got two identities
C20_SshUrlKeepsUser ==
    /\ last.cmd = "extract_repo_id"
    /\ last.repo = <<"git@github.com:user/repo.git", "ssh://git@github.com/user/repo.git">>
    /\ last.ret = <<"github_com_user_repo", "git@github_com_user_repo">>


\* the identifier of an argument read as a raw path (config.py:35,37)
RawPathId(repo) == Sanitize(LStrip(RemoveSuffix(RStrip(repo, "/"), GIT_SUFFIX), "/"))

\* C21: extract_repo_id raises for no argument; an argument that has none of
\* the three shapes, a string starting with git@ without a ':' included, is
\* read as a raw path and still gets an identifier.
C21_NeverRaises ==
    last.cmd = "extract_repo_id" =>
       /\ last.ret[1] /= ValueError
       /\ last.repo[1] \in Malformed => last.ret[1] = RawPathId(last.repo[1])

\* git@ without a ':' raised instead of being read as a raw path
C21_GitAtWithoutColonRaises ==
    /\ last.cmd = "extract_repo_id"
    /\ last.repo[1] = "git@github.com"
    /\ last.ret[1] = ValueError

\* an argument of no shape was read as a raw path
C21_RawPathFallback ==
    /\ last.cmd = "extract_repo_id"
    /\ last.repo[1] = "some/local/repo.git"
    /\ last.ret[1] = "some_local_repo"

(***************************************************************************)
(* Claims about the evaluation of a worktree's status.                     *)
(***************************************************************************)
\* the invocations of a log that run one git subcommand
GitCalls(log, subcommand) == SelectSeq(log, LAMBDA e : e.argv[1] = subcommand)

\* the default branch git symbolic-ref named in a log
ResolvedDefault(log) ==
    LET parts == Split(GitCalls(log, "symbolic-ref")[1].stdout, "/")
    IN parts[Len(parts)]

\* C22: get_branch_status counts the unpushed commits with one git rev-list
\* --count, over origin/<branch>..<branch> when has_remote is true and over
\* origin/<default>..<branch> otherwise; a non-zero exit of that call raises
\* nothing: unpushed_commits is 0 and the evaluation goes on to git diff and
\* to the BranchStatus.
C22_RevListRangeAndFailureIsZero ==
    \A k \in 1..Len(last.log) :
       last.log[k].argv[1] = "rev-list" =>
          LET e == last.log[k]
              st == last.status
          IN /\ e.by = "get_branch_status"
             /\ Len(GitCalls(last.log, "rev-list")) = 1
             /\ st /= NoStatus
             /\ e.cwd = st.path
             /\ e.argv = <<"rev-list", "--count",
                           "origin/" \o (IF st.has_remote THEN st.name
                                         ELSE ResolvedDefault(last.log))
                           \o ".." \o st.name>>
             /\ e.rc /= 0 => st.unpushed_commits = 0
             /\ e.rc = 0 => st.unpushed_commits = int(strip(e.stdout))
             /\ k < Len(last.log) /\ last.log[k + 1].argv = <<"diff", "--stat", "HEAD">>
             /\ last.exit = 0

\* the scan of clean has evaluated a branch that is not on the remote, and
\* git rev-list over origin/<default>..<branch> failed
C22_Witness ==
    /\ last.cmd = "clean" /\ last.pc = "filter"
    /\ ~last.status.has_remote /\ last.status.unpushed_commits = 0
    /\ \E k \in 1..Len(last.log) :
          /\ last.log[k].argv = <<"rev-list", "--count", "origin/main..fix/x">>
          /\ last.log[k].rc /= 0

\* the same for a branch that is on the remote
C22_WitnessRemote ==
    /\ last.cmd = "clean" /\ last.pc = "filter"
    /\ last.status.has_remote /\ last.status.unpushed_commits = 0
    /\ \E k \in 1..Len(last.log) :
          /\ last.log[k].argv = <<"rev-list", "--count", "origin/fix/x..fix/x">>
          /\ last.log[k].rc /= 0

C24_LocalBranchIsAttached ==
    (last.cmd = "shell" /\ last.wt_called /\ ~last.tree_existed) =>
       LET calls == IssuedBy(last.log, "ensure_worktree")
       IN /\ calls /= <<>>
          /\ calls[1].argv = <<"show-ref", "--verify", "--quiet",
                               "refs/heads/" \o last.target_branch>>
          /\ calls[1].rc = 0 =>
                /\ Len(calls) = 2
                /\ calls[2].argv = <<"worktree", "add", last.tree_path, last.target_branch>>
          /\ \A k \in 1..Len(calls) :
                calls[k].argv[1] = "ls-remote" =>
                   /\ k = 2 /\ calls[1].rc /= 0
                   /\ (calls[k].rc = 0 /\ calls[k].stdout /= "") =>
                         /\ Len(calls) = 3
                         /\ calls[3].argv =
                               <<"worktree", "add", "--track", "-b", last.target_branch,
                                 last.tree_path, "origin/" \o last.target_branch>>

\* shell has attached the local branch the clone left to a new worktree
C24_Witness ==
    /\ last.cmd = "shell" /\ last.exit = 0 /\ last.branch = None
    /\ ~last.tree_existed /\ last.tree_path \in dirs
    /\ LET calls == IssuedBy(last.log, "ensure_worktree")
       IN /\ Len(calls) = 2 /\ calls[1].rc = 0
          /\ calls[2].argv = <<"worktree", "add", last.tree_path, "main">>

\* shell has added a worktree that tracks the branch found on the remote
C24_WitnessRemote ==
    /\ last.cmd = "shell" /\ last.exit = 0 /\ last.branch = "feat"
    /\ LET calls == IssuedBy(last.log, "ensure_worktree")
       IN /\ Len(calls) = 3 /\ calls[1].rc /= 0
          /\ calls[3].argv = <<"worktree", "add", "--track", "-b", "feat",
                               last.tree_path, "origin/feat">>

(***************************************************************************)
(* Claims about the worktree listing.                                      *)
(***************************************************************************)
\* the worktrees registered in the trunk of a repository directory whose
\* paths lie under its tree_branches/, each with its path relative to it
RegisteredUnder(g, repo_root) ==
    LET tree_branches_dir == PathJoin(repo_root, "tree_branches")
    IN { [name |-> SubSeq(wt.path, Len(tree_branches_dir) + 2, Len(wt.path)),
          path |-> wt.path] :
           wt \in { w \in Range(g[PathName(repo_root)].worktrees) :
                      StartsWith(w.path, tree_branches_dir \o "/") } }

C25_WitnessFailure ==
    /\ last.cmd = "get_repo_branches_fast"
    /\ last.ret = <<>> /\ Len(last.log) = 1 /\ last.log[1].rc /= 0
    /\ git[PathName(last.repo)].worktrees /= <<>>

\* the listing is empty because tree_branches/ is missing beside the trunk
C25_WitnessNoTreeBranches ==
    /\ last.cmd = "get_repo_branches_fast"
    /\ PathJoin(last.repo, "trunk") \in dirs
    /\ PathJoin(last.repo, "tree_branches") \notin dirs
    /\ Len(last.log) = 1 /\ last.log[1].rc = 0 /\ last.ret = <<>>

\* the listing is empty because the trunk is missing
C25_WitnessNoTrunk ==
    /\ last.cmd = "get_repo_branches_fast"
    /\ last.repo \in dirs /\ PathJoin(last.repo, "trunk") \notin dirs
    /\ last.ret = <<>>

(***************************************************************************)
(* Claims about what a bulk clean may delete.                              *)
(***************************************************************************)
\* C26: across a bulk clean no worktree directory whose status was evaluated
\* as not safe to clean is deleted from disk, neither by a removal of the
\* worktree nor by the recursive deletion of its repository directory: a
\* repository directory is not deleted while it holds a worktree that was not
\* selected, also when the listing after the removals fails or is empty.
C26_UnsafeWorktreeStaysOnDisk ==
    last.cmd = "clean" =>
       /\ \A k \in 1..Len(last.skipped) :
             /\ last.skipped[k] \in dirs
             /\ repo_root_of(last.skipped[k]) \in dirs
       /\ \A k \in 1..Len(last.removals) :
             last.removals[k].argv[1] = "worktree" =>
                last.removals[k].argv[3] \notin Range(last.skipped)

\* a bulk clean has deleted the repository directory together with a
\* worktree it had evaluated as not safe
C26_UnsafeWorktreeDeleted ==
    /\ last.cmd = "clean" /\ last.pc = "done" /\ last.repos_removed = 1
    /\ last.skipped = <<"w/repos/h_u_a/tree_branches/fix/x">>
    /\ Paths(last.to_clean) = <<"w/repos/h_u_a/tree_branches/main">>
    /\ "w/repos/h_u_a/tree_branches/fix/x" \notin dirs

\* C27: a branch with unpushed commits is never safe to clean, whatever
\* has_remote and is_merged are; hence a bulk clean never selects a branch
\* whose evaluated count of unpushed commits is not zero, and the clean
\* action of the list refuses it.
C27_UnpushedNeverSelected ==
    /\ (last.status /= NoStatus /\ last.status.unpushed_commits > 0) =>
          /\ ~is_safe_to_clean(last.status)
          /\ (last.cmd = "list" /\ last.action = "clean") =>
                ~last.safe /\ last.removals = <<>>
    /\ last.cmd = "clean" =>
          /\ \A k \in 1..Len(last.to_clean) : last.to_clean[k].unpushed_commits = 0
          /\ \A k \in 1..Len(last.removals) :
                last.removals[k].argv[1] = "worktree" =>
                   last.removals[k].argv[3] \in Range(Paths(last.to_clean))

\* the scan of a bulk clean has evaluated a merged branch that is on the
\* remote, has unpushed commits and no uncommitted changes, after it had
\* selected another
C27_Witness ==
    /\ last.cmd = "clean" /\ last.pc = "filter"
    /\ last.status.has_remote /\ last.status.is_merged
    /\ last.status.unpushed_commits > 0 /\ last.status.uncommitted_changes = 0
    /\ last.to_clean /= <<>>

\* the bulk clean has ended with that branch skipped and the other removed
C27_WitnessSkipped ==
    /\ last.cmd = "clean" /\ last.pc = "done" /\ last.removals /= <<>>
    /\ last.skipped /= <<>>
    /\ \A k \in 1..Len(last.skipped) : last.skipped[k] \in dirs

\* the scan of a bulk clean has evaluated every listed worktree
ScanComplete == Len(last.to_clean) + Len(last.skipped) = Len(last.all_branches)

\* a status evaluation of the command ended in a failed git symbolic-ref
ScanFailed ==
    \E k \in 1..Len(last.log) :
       /\ last.log[k].by = "get_branch_status"
       /\ last.log[k].argv[1] = "symbolic-ref" /\ last.log[k].rc /= 0

\* C28: in a bulk clean every mutating operation (git worktree remove, git
\* branch -d, the deletion of a repository directory) happens only after the
\* status of every listed worktree was evaluated and after the confirmation
\* was given or --force was set; when the evaluation of a status fails
\* fatally during the scan (the default branch cannot be resolved), the
\* command ends with nothing removed.
C28_RemovalsOnlyAfterScanAndConfirmation ==
    last.cmd = "clean" =>
       /\ (last.removals /= <<>> \/ last.mutated \/ last.pc \in {"remove", "sweep"}) =>
             /\ ScanComplete
             /\ last.reported /\ ~last.dry_run
             /\ last.force \/ (last.prompted /\ last.answer)
       /\ ~ScanComplete => last.pc \in {"scan", "filter", "done"}
       /\ ScanFailed =>
             /\ last.pc = "done" /\ last.exit /= 0
             /\ ~ScanComplete
             /\ last.removals = <<>> /\ ~last.mutated /\ ~last.reported

\* the scan of clean --force was aborted by a failed default-branch
\* resolution after a first worktree had been selected: nothing was removed
C28_Witness ==
    /\ last.cmd = "clean" /\ last.force /\ ~last.dry_run
    /\ ScanFailed /\ last.pc = "done"
    /\ last.to_clean /= <<>>
    /\ \A k \in 1..Len(last.to_clean) : last.to_clean[k].path \in dirs

\* removals after a complete scan and a given confirmation
C28_WitnessConfirmed ==
    /\ last.cmd = "clean" /\ ~last.force /\ last.answer
    /\ last.pc = "done" /\ last.removals /= <<>> /\ last.skipped /= <<>>

\* C29: once the trunk path of a repository exists on disk, no later
\* ensure_base_repo issues a clone for it: every later call starts with the
\* fetch, also when the directory is what a failed clone left; such a
\* directory is neither cloned again nor repaired, and the command fails.
C29_ExistingTrunkIsNeverCloned ==
    [][ \A repo \in Urls :
           LET repo_id == extract_repo_id(repo)
               trunk == TrunkPath(repo_id)
               ran == last.cmd = "none" /\ last'.cmd = "shell" /\ last'.repo = repo
           IN trunk \in dirs =>
                 /\ trunk \in dirs'
                 /\ \A k \in 1..Len(last'.log) :
                       last'.log[k].argv[1] = "clone" => last'.log[k].argv[4] /= trunk
                 /\ ran => /\ last'.log /= <<>>
                           /\ last'.log[1].by = "ensure_base_repo"
                           /\ last'.log[1].argv = <<"fetch", "--all", "--prune">>
                           /\ last'.log[1].cwd = trunk
                 /\ ~git[repo_id].cloned =>
                       /\ ~git'[repo_id].cloned
                       /\ ran => last'.exit /= 0 /\ last'.entered = None
      ]_vars

\* a shell command has run on the directory a failed clone had left: it
\* fetched, failed, and the directory is as it was
C29_Witness ==
    /\ last.cmd = "shell" /\ last.exit /= 0
    /\ TrunkPath(extract_repo_id(last.repo)) \in dirs
    /\ ~git[extract_repo_id(last.repo)].cloned
    /\ Len(last.log) = 1
    /\ last.log[1].argv = <<"fetch", "--all", "--prune">> /\ last.log[1].rc /= 0

\* the positions of a log at which one function issued an invocation
PositionsOf(log, by) == { k \in 1..Len(log) : log[k].by = by }

\* C30: in one shell command in remote mode the trunk is ensured, then the
\* worktree, then the shell is entered: ensure_worktree is invoked only after
\* ensure_base_repo has completed without failure, and the shell is entered
\* only after ensure_worktree has completed without failure; the worktree
\* path is repos/<identity>/tree_branches/<branch>, the branch being the
\* default branch when none was given.
C30_TrunkThenWorktreeThenShell ==
    last.cmd = "shell" =>
       LET repo_id == extract_repo_id(last.repo)
           base == IssuedBy(last.log, "ensure_base_repo")
           tree == IssuedBy(last.log, "ensure_worktree")
           base_done == /\ Len(base) = 3
                        /\ \A k \in 1..3 : base[k].rc = 0
                        /\ base[3].argv[1] = "checkout"
           tree_done == /\ last.tree_path \in dirs
                        /\ \A k \in 1..Len(tree) :
                              tree[k].argv[1] = "show-ref" \/ tree[k].rc = 0
       IN /\ base /= <<>> /\ 1 \in PositionsOf(last.log, "ensure_base_repo")
          /\ \A j \in PositionsOf(last.log, "ensure_base_repo"),
                k \in PositionsOf(last.log, "_prepare_remote_worktree") : j < k
          /\ \A j \in PositionsOf(last.log, "ensure_base_repo")
                      \cup PositionsOf(last.log, "_prepare_remote_worktree"),
                k \in PositionsOf(last.log, "ensure_worktree") : j < k
          /\ (last.wt_called \/ tree /= <<>>) =>
                /\ base_done
                /\ last.wt_called
                /\ last.target_branch = IF last.branch /= None THEN last.branch
                                        ELSE RemoteHead(last.repo)
                /\ last.tree_path = PathJoin(PathJoin(PathJoin(PathJoin(
                                       GrvRoot, "repos"), repo_id), "tree_branches"),
                                       last.target_branch)
                /\ \A k \in 1..Len(tree) : tree[k].cwd = TrunkPath(repo_id)
          /\ last.entered /= None =>
                /\ base_done /\ last.wt_called /\ tree_done
                /\ last.entered = last.tree_path
                /\ last.exit = 0
          /\ last.entered = None => ~(base_done /\ last.wt_called /\ tree_done)

\* the trunk was cloned, then the worktree of the default branch created,
\* then the shell entered in it
C30_Witness ==
    /\ last.cmd = "shell" /\ last.branch = None /\ last.repo = "git@h:u/a.git"
    /\ last.entered = "w/repos/h_u_a/tree_branches/main"
    /\ Len(IssuedBy(last.log, "ensure_base_repo")) = 3
    /\ Len(IssuedBy(last.log, "ensure_worktree")) = 2

\* the trunk was ensured, the worktree was not: no shell was entered
C30_WitnessNoShell ==
    /\ last.cmd = "shell" /\ last.entered = None /\ last.wt_called
    /\ Len(IssuedBy(last.log, "ensure_base_repo")) = 3
    /\ IssuedBy(last.log, "ensure_worktree") /= <<>>
    /\ last.tree_path \notin dirs

=============================================================================
